---- MODULE Spec2Model ----
(***************************************************************************)
(* Aggregation-and-scoring engine of the social media usage analytics      *)
(* application: the analytics engine of the backend (daily, weekly and     *)
(* monthly statistics, risk score, time series) and the analysis utilities *)
(* of the frontend (digital honesty score, regret analysis, mirror         *)
(* patterns, before/after comparison).                                     *)
(*                                                                         *)
(* Numbers.  The JavaScript code computes on doubles.  The model computes  *)
(* on integers and keeps every quotient exact:                             *)
(*   - minutesSpent is a whole number of minutes;                          *)
(*   - a value the code rounds to two decimals (Math.round(x * 100) / 100) *)
(*     is kept in hundredths (averageDailyMinutes = 6000 is 60.00);        *)
(*   - a frequency in [0,1] is kept in hundredths (30 is 0.30);            *)
(*   - a date is a day number; the difference of two Date objects built    *)
(*     from date-only strings, divided by 86400000 and floored, is the     *)
(*     difference of the day numbers;                                      *)
(*   - createdAt is <<>> when absent and <<h>> for local hour h;           *)
(*   - intention is "" when absent (falsy in JavaScript);                  *)
(*   - foundIt is one of "true", "false", "null", "undefined";             *)
(*   - a minutesSpent that is not a number is NaN, kept as -1.             *)
(***************************************************************************)
EXTENDS Integers, Sequences, FiniteSets, Bags, TLC

VARIABLES entries, call, result, usageLogs, nextId, pending, earlier

vars == <<entries, call, result, usageLogs, nextId, pending, earlier>>

\* The usage_logs table, its AUTO_INCREMENT counter and the requests that
\* are at an await, between two of their reads or before their write.
storeVars == <<usageLogs, nextId, pending>>

(***************************************************************************)
(* Bounds of the model.                                                    *)
(***************************************************************************)
MaxEntries == 4
MaxHonestyEntries == 4
MaxWeekDays == 7
MaxMirrorEntries == 3
MaxCompareEntries == 4
MaxTrendEntries == 5
MaxStatsEntries == 4
MaxAppEntries == 4
MaxSeriesEntries == 3
MaxDefaultEntries == 2
MaxMalformedEntries == 4
MaxScoreDays == 9
MaxSimulatorEntries == 3
MaxCallEntries == 3

(***************************************************************************)
(* Arithmetic helpers.                                                     *)
(***************************************************************************)
Min(a, b) == IF a < b THEN a ELSE b
Max(a, b) == IF a > b THEN a ELSE b

\* Math.round(num / den) for num >= 0, den > 0: halves round up.
MathRound(num, den) == (2 * num + den) \div (2 * den)

(***************************************************************************)
(* IEEE 754 doubles, where the code's result depends on their rounding.    *)
(* The quotient a / b of two positive integers lies in the binade of its   *)
(* exponent E, 2^E <= a / b < 2^(E + 1), where doubles are ulp = 2^(E-52)  *)
(* apart; its mantissa is a * 2^(52 - E) / b rounded to the nearest        *)
(* integer, which makes the double a / b + (QuotientError / b) * ulp.      *)
(* The numbers here are below 2^30 and the divisors below 2^15.            *)
(***************************************************************************)
\* 2^E <= a / b
AtLeastPowerOfTwo(a, b, E) ==
    IF E >= 0 THEN a \div 2^E >= b ELSE a >= (b + 2^(-E) - 1) \div 2^(-E)

\* The exponent of the double a / b: floor(log2(a / b)).
Exponent(a, b) ==
    CHOOSE E \in -30..29 : AtLeastPowerOfTwo(a, b, E) /\ ~AtLeastPowerOfTwo(a, b, E + 1)

\* 2^s modulo m
RECURSIVE PowerOfTwoMod(_, _)
PowerOfTwoMod(s, m) == IF s = 0 THEN 1 % m ELSE (2 * PowerOfTwoMod(s - 1, m)) % m

\* a * 2^(52 - E) modulo m: what the division leaves of the mantissa.
MantissaMod(a, E, m) == ((a % m) * PowerOfTwoMod(52 - E, m)) % m

\* The error of the double a / b in units of ulp / b: the remainder r is
\* dropped where it is below half of b, and b - r is added otherwise (a
\* remainder of exactly half of b takes a quotient of 54 bits).
QuotientError(a, b, E) ==
    LET r == MantissaMod(a, E, b) IN IF 2 * r < b THEN -r ELSE b - r

\* The mantissa of the double a / b is odd.
OddMantissa(a, b, E) ==
    LET r == MantissaMod(a, E, 2 * b) IN (r >= b) # (2 * (r % b) >= b)

\* a / b is 2^E.
PowerOfTwo(a, b, E) == IF E >= 0 THEN a = b * 2^E ELSE a * 2^(-E) = b

\* The double (num / den) * 100 is below n + 0.5 = 100 * num / den, for
\* n > 0: the doubles around n + 0.5 are 2^(En - 52) apart, n + 0.5 is one
\* of them with an even mantissa, and the product rounds below it where
\* 100 times the error of the quotient is more than half of that below.
ProductBelowHalf(den, error, E, En) == 200 * (-error) > den * 2^(En - E)

\* Math.round((num / den) * 100), the hundredths of the value rounded to 2
\* decimals, for num >= 0 and den > 0.  The quotient and the product are
\* rounded to doubles; their error is far below the distance of
\* 100 * num / den from the nearest n + 0.5 unless it is such a value
\* exactly, where the doubles decide (Math.round((23 / 40) * 100) is 57,
\* and (1 / 200) * 100 is 0.5).
Round2Tie(num, den, n, E) ==
    IF n > 0 /\ ProductBelowHalf(den, QuotientError(num, den, E), E, Exponent(n, 1))
    THEN n ELSE n + 1

Round2(num, den) ==
    IF (200 * num) % (2 * den) = den
    THEN Round2Tie(num, den, (100 * num) \div den, Exponent(num, den))
    ELSE MathRound(100 * num, den)

RECURSIVE SumRange(_, _, _)
SumRange(F(_), lo, hi) == IF lo > hi THEN 0 ELSE F(lo) + SumRange(F, lo + 1, hi)

Front(s) == SubSeq(s, 1, Len(s) - 1)
Last(s) == s[Len(s)]

\* A minutesSpent that is not numeric reaches the backend's components as
\* NaN, which is what parseFloat makes of it (the controllers' conversion to
\* plain objects).  NaN is kept as -1; no record has negative minutes.
NaN == -1

\* A property that is absent from an object.
Undefined == -2

\* A minutesSpent that is a string with no number at its start, such as
\* 'abc'.  What + makes of it and another value is such a string again
\* ('0abc', 'abc30').
NotNumeric == -3

\* parseFloat(x): NaN for an absent value and for a string with no number.
parseFloat(x) == IF x \in {Undefined, NotNumeric} THEN NaN ELSE x

\* The number an arithmetic operator, a comparison or a Math function makes
\* of its operand.
ToNumber(x) == IF x \in {Undefined, NotNumeric} THEN NaN ELSE x

\* a + b: a concatenation if either is a string; on numbers NaN if either
\* is NaN.
Plus(a, b) ==
    IF a = NotNumeric \/ b = NotNumeric THEN NotNumeric
    ELSE IF ToNumber(a) = NaN \/ ToNumber(b) = NaN THEN NaN
    ELSE a + b

\* A difference that is NaN.  A difference of two numbers may be -1, so NaN
\* is kept here as a number below every difference of the values of a model.
NaNDifference == -1000000000

\* a - b on numbers: NaN if either is NaN.
Minus(a, b) == IF a = NaN \/ b = NaN THEN NaNDifference ELSE a - b

\* a || 0: NaN, 0 and undefined are falsy, a string with characters is not.
OrZero(a) == IF a \in {NaN, Undefined} THEN 0 ELSE a

\* Math.round((num / den) * 100) where num may be no number.
Round2OrNaN(num, den) == IF ToNumber(num) = NaN THEN NaN ELSE Round2(num, den)

\* parseFloat(e.minutesSpent) || 0
Minutes(e) == OrZero(parseFloat(e.minutesSpent))

\* parseFloat(e.minutesSpent || 0)
ParsedMinutes(e) == parseFloat(OrZero(e.minutesSpent))

\* [...entries].sort((a, b) => new Date(a.date) - new Date(b.date)): a stable sort.
RECURSIVE InsertByDate(_, _)
InsertByDate(sorted, e) ==
    IF sorted = <<>> THEN <<e>>
    ELSE IF Head(sorted).date <= e.date
         THEN <<Head(sorted)>> \o InsertByDate(Tail(sorted), e)
         ELSE <<e>> \o sorted

RECURSIVE SortByDate(_)
SortByDate(es) ==
    IF es = <<>> THEN <<>> ELSE InsertByDate(SortByDate(Front(es)), Last(es))

\* The Map from date to summed minutes, filled in list order
\* (dateMap.set(dateKey, (dateMap.get(dateKey) || 0) + log.minutesSpent)):
\* a sequence of entries [key, value], first-seen key first.
DateMap(es) ==
    LET RECURSIVE Fill(_)
        Fill(n) ==
            IF n = 0 THEN <<>>
            ELSE LET m == Fill(n - 1)
                     hit == {i \in 1..Len(m) : m[i].key = es[n].date}
                 IN IF hit = {}
                    THEN Append(m, [key |-> es[n].date,
                                    value |-> Plus(0, es[n].minutesSpent)])
                    ELSE LET i == CHOOSE i \in hit : TRUE
                         IN [m EXCEPT ![i].value = Plus(OrZero(@), es[n].minutesSpent)]
    IN Fill(Len(es))

\* Array.from(dateMap.keys())
DateKeys(es) == LET m == DateMap(es) IN [i \in 1..Len(m) |-> m[i].key]

\* Array.from(dateMap.values())
DailyTotals(es) == LET m == DateMap(es) IN [i \in 1..Len(m) |-> m[i].value]

\* s.reduce((sum, val) => sum + val, 0)
SeqSum(s) == LET RECURSIVE Sum(_)
                 Sum(n) == IF n = 0 THEN 0
                           ELSE LET sum == Sum(n - 1) IN Plus(sum, s[n])
             IN Sum(Len(s))

\* Math.max(...s, 0): NaN if a value is no number.
SeqMax(s) == LET RECURSIVE Mx(_)
                 Mx(i) == IF i = 0 THEN 0 ELSE Max(s[i], Mx(i - 1))
             IN IF \E i \in 1..Len(s) : ToNumber(s[i]) = NaN THEN NaN ELSE Mx(Len(s))

(***************************************************************************)
(* Digital honesty score (frontend/src/utils/digitalHonestyScore.js).      *)
(***************************************************************************)
maxGapDays == 7
maxRealisticMinutes == 960

\* Step 1: penalty for every pair of consecutive sorted entries more than
\* maxGapDays apart.
GapPenalty(sorted) ==
    LET At(i) ==
            LET daysDiff == sorted[i].date - sorted[i - 1].date
            IN IF daysDiff > maxGapDays
               THEN Min(30, (daysDiff - maxGapDays) * 5)
               ELSE 0
    IN SumRange(At, 2, Len(sorted))

\* Mutant: an entry of exactly maxRealisticMinutes is penalised too.
UnrealisticPenaltyInclusive(sorted) ==
    LET At(i) == IF sorted[i].minutesSpent >= maxRealisticMinutes THEN 10 ELSE 0
    IN SumRange(At, 1, Len(sorted))

\* Step 2: 10 points for every entry above maxRealisticMinutes.
UnrealisticPenalty(sorted) ==
    LET At(i) == IF Minutes(sorted[i]) > maxRealisticMinutes THEN 10 ELSE 0
    IN SumRange(At, 1, Len(sorted))

\* Mutant: the recentAvg > 0 guard is dropped.
IsSpikeLongNoGuard(sorted, i) ==
    sorted[i].minutesSpent >
        sorted[i - 3].minutesSpent + sorted[i - 2].minutesSpent + sorted[i - 1].minutesSpent

\* Step 3, histories of 4 and more: current against the mean of the 3 before it.
\* recentAvg = sum / 3, so recentAvg > 0 is sum > 0 and
\* currentMinutes > recentAvg * 3 is currentMinutes > sum.
IsSpikeLong(sorted, i) ==
    LET recentSum == Minutes(sorted[i - 3]) + Minutes(sorted[i - 2]) + Minutes(sorted[i - 1])
        currentMinutes == Minutes(sorted[i])
    IN recentSum > 0 /\ currentMinutes > recentSum

\* Step 3, histories of 2 or 3: current against its predecessor.
IsSpikeShort(sorted, i) ==
    LET prevMinutes == Minutes(sorted[i - 1])
        currentMinutes == Minutes(sorted[i])
    IN prevMinutes > 0 /\ currentMinutes > prevMinutes * 5

SpikePenalty(sorted) ==
    IF Len(sorted) >= 4
    THEN LET At(i) == IF IsSpikeLong(sorted, i) THEN 5 ELSE 0
         IN SumRange(At, 4, Len(sorted))
    ELSE IF Len(sorted) >= 2
    THEN LET At(i) == IF IsSpikeShort(sorted, i) THEN 5 ELSE 0
         IN SumRange(At, 2, Len(sorted))
    ELSE 0

\* The score before the final clamp.
HonestyRaw(es) ==
    LET sortedEntries == SortByDate(es)
    IN 100 - GapPenalty(sortedEntries) - UnrealisticPenalty(sortedEntries)
           - SpikePenalty(sortedEntries)

\* Mutant: the final clamp is dropped.
calculateDigitalHonestyScoreUnclamped(es) ==
    IF Len(es) = 0 THEN 100
    ELSE IF Len(es) = 1 THEN 100
    ELSE HonestyRaw(es)

\* Mutant: a single entry is scored as a longer list is.
calculateDigitalHonestyScoreNoSingle(es) ==
    IF Len(es) = 0 THEN 100
    ELSE Max(0, Min(100, HonestyRaw(es)))

calculateDigitalHonestyScore(es) ==
    IF Len(es) = 0 THEN 100
    ELSE IF Len(es) = 1 THEN 100
    ELSE Max(0, Min(100, HonestyRaw(es)))

(***************************************************************************)
(* Weekly statistics and risk score (backend analytics engine).            *)
(***************************************************************************)
\* Keys of the app Map, first seen first.
RECURSIVE AppKeys(_)
AppKeys(es) ==
    IF es = <<>> THEN <<>>
    ELSE LET ks == AppKeys(Front(es))
             a == Last(es).appName
         IN IF \E i \in 1..Len(ks) : ks[i] = a THEN ks ELSE Append(ks, a)

\* The comparator (a, b) => b.minutes - a.minutes as the sort reads it: a
\* result that is NaN counts as 0.
ByMinutesDesc(a, b) ==
    IF ToNumber(a.minutes) = NaN \/ ToNumber(b.minutes) = NaN THEN 0
    ELSE b.minutes - a.minutes

\* Mutant: an app is placed before the apps of equal minutes.
RECURSIVE InsertByMinutesDescUnstable(_, _)
InsertByMinutesDescUnstable(sorted, a) ==
    IF sorted = <<>> THEN <<a>>
    ELSE IF Head(sorted).minutes > a.minutes
         THEN <<Head(sorted)>> \o InsertByMinutesDescUnstable(Tail(sorted), a)
         ELSE <<a>> \o sorted

\* One step of the binary insertion sort of Array.prototype.sort: a is put
\* into the sorted elements at the place a binary search finds, after the
\* elements it does not compare below.
InsertByMinutesDesc(sorted, a) ==
    LET RECURSIVE Search(_, _)
        Search(left, right) ==
            IF left >= right THEN left
            ELSE LET mid == left + (right - left) \div 2
                 IN IF ByMinutesDesc(a, sorted[mid + 1]) < 0
                    THEN Search(left, mid)
                    ELSE Search(mid + 1, right)
        at == Search(0, Len(sorted))
    IN SubSeq(sorted, 1, at) \o <<a>> \o SubSeq(sorted, at + 1, Len(sorted))

\* The run the array begins with: its elements while each compares at or
\* above the one before it, or, if the second compares below the first,
\* while each compares below the one before it, this run then reversed.
InitialRunByMinutesDesc(as) ==
    LET n == Len(as)
        descending == ByMinutesDesc(as[2], as[1]) < 0
        RECURSIVE RunLength(_)
        RunLength(i) ==
            IF i > n THEN n
            ELSE LET order == ByMinutesDesc(as[i], as[i - 1])
                 IN IF (descending /\ order >= 0) \/ (~descending /\ order < 0)
                    THEN i - 1
                    ELSE RunLength(i + 1)
        length == RunLength(3)
    IN IF descending THEN [i \in 1..length |-> as[length + 1 - i]]
       ELSE SubSeq(as, 1, length)

\* .sort((a, b) => b.minutes - a.minutes) as node sorts an array of fewer
\* than 64 elements: the initial run, then the other elements by binary
\* insertion.  With minutes that are numbers this is the stable sort,
\* largest first, for an array of any length.
SortByMinutesDesc(as) ==
    IF Len(as) < 2 THEN as
    ELSE LET run == InitialRunByMinutesDesc(as)
             RECURSIVE Sorted(_)
             Sorted(k) ==
                 IF k = Len(run) THEN run
                 ELSE InsertByMinutesDesc(Sorted(k - 1), as[k])
         IN Sorted(Len(as))

\* appMap.set(name, (appMap.get(name) || 0) + log.minutesSpent) over the list.
AppBreakdown(es) ==
    LET ks == AppKeys(es)
        MinutesOf(a) ==
            LET RECURSIVE Value(_)
                Value(n) ==
                    IF n = 0 THEN 0
                    ELSE IF es[n].appName = a
                    THEN LET value == Value(n - 1)
                             existing == OrZero(value)
                         IN Plus(existing, es[n].minutesSpent)
                    ELSE Value(n - 1)
            IN Value(Len(es))
    IN SortByMinutesDesc([i \in 1..Len(ks) |-> [name |-> ks[i], minutes |-> MinutesOf(ks[i])]])

\* Mutant: a second half of exactly 1.1 times the first counts as increasing.
TrendInclusive(dailyTotals) ==
    IF Len(dailyTotals) >= 4
    THEN LET n == Len(dailyTotals)
             midpoint == n \div 2
             s1 == SeqSum(SubSeq(dailyTotals, 1, midpoint))
             s2 == SeqSum(SubSeq(dailyTotals, midpoint + 1, n))
         IN IF 10 * s2 * midpoint >= 11 * s1 * (n - midpoint) THEN "increasing"
            ELSE IF 10 * s2 * midpoint < 9 * s1 * (n - midpoint) THEN "decreasing"
            ELSE "stable"
    ELSE "stable"

\* totalMinutes and averageMinutes are in hundredths of a minute; the
\* minutes of the apps are not rounded.
calculateDailyStats(logs) ==
    IF Len(logs) = 0
    THEN [totalMinutes |-> 0, averageMinutes |-> 0, appCount |-> 0, apps |-> <<>>]
    ELSE LET RECURSIVE Reduce(_)
             Reduce(n) == IF n = 0 THEN 0
                          ELSE LET sum == Reduce(n - 1)
                               IN Plus(sum, logs[n].minutesSpent)
             totalMinutes == Reduce(Len(logs))
         IN [totalMinutes |-> Round2OrNaN(totalMinutes, 1),
             averageMinutes |-> Round2OrNaN(totalMinutes, Len(logs)),
             appCount |-> Len(AppKeys(logs)),
             apps |-> AppBreakdown(logs)]

\* secondHalf < firstHalf * 0.9 where s2 / n2 = 0.9 * s1 / n1 exactly and
\* is not 0.  The literal 0.9 is the double 0.9 + 0.2 * 2^-53, so the
\* product before rounding is the double s2 / n2 (error a2, exponent ES)
\* plus ulpF * (0.9 * a1 / n1 + 0.1 * (s1 / n1) / 2^EF) - ulpS * a2 / n2,
\* and it rounds above that double where this is more than half an ulpS
\* (at exactly half: where the error a1 is positive, or is 0 and the
\* double s2 / n2 has an odd mantissa).  Both sides times 10 * n1 * n2 * P,
\* with P and Q the powers of two that clear 2^EF.
ProductAbove(s2, n2, s1, n1, EF, ES, a1, a2, P, Q) ==
    LET gap == 2^(EF - ES) * (9 * a1 * n2 * P + s1 * n2 * Q) - 10 * a2 * n1 * P
    IN IF gap = 5 * n1 * n2 * P THEN a1 > 0 \/ (a1 = 0 /\ OddMantissa(s2, n2, ES))
       ELSE gap > 5 * n1 * n2 * P

\* secondHalf > firstHalf * 1.1 where s2 / n2 = 1.1 * s1 / n1 exactly and
\* is not 0.  The literal 1.1 is the double 1.1 + 0.4 * 2^-52, so the
\* product before rounding is the double s2 / n2 plus
\* ulpF * (1.1 * a1 / n1 + 0.4 * (s1 / n1) / 2^EF) - ulpS * a2 / n2, and it
\* rounds below that double where this is less than minus half the distance
\* to the double before it, an ulpS, or half of one below a power of two
\* (at exactly half: where a1 is negative, or is 0 and the mantissa odd).
\* Both sides times 20 * n1 * n2 * P * 2^(ES - EF).
ProductBelow(s2, n2, s1, n1, EF, ES, a1, a2, P, Q) ==
    LET gap == 2 * (11 * a1 * n2 * P + 4 * s1 * n2 * Q) - 20 * a2 * n1 * P * 2^(ES - EF)
        half == (IF PowerOfTwo(s2, n2, ES) THEN 5 ELSE 10) * n1 * n2 * P * 2^(ES - EF)
    IN IF gap = -half THEN a1 < 0 \/ (a1 = 0 /\ OddMantissa(s2, n2, ES))
       ELSE gap < -half

\* The two quotients at a tie, with their exponents and errors.
BelowAtTie(s2, n2, s1, n1, EF, ES) ==
    ProductAbove(s2, n2, s1, n1, EF, ES, QuotientError(s1, n1, EF),
                 QuotientError(s2, n2, ES), 2^Max(EF, 0), 2^Max(-EF, 0))

AboveAtTie(s2, n2, s1, n1, EF, ES) ==
    ProductBelow(s2, n2, s1, n1, EF, ES, QuotientError(s1, n1, EF),
                 QuotientError(s2, n2, ES), 2^Max(EF, 0), 2^Max(-EF, 0))

\* secondHalf > firstHalf * 1.1 for firstHalf = s1 / n1 and secondHalf =
\* s2 / n2.  The two quotients and the product are rounded to doubles, and
\* 1.1 is the double next to it; their error is far below the distance of
\* the exact quotients, of 10 * s2 * n1 from 11 * s1 * n2, unless these are
\* equal, where the doubles decide.
AboveTenPercent(s2, n2, s1, n1) ==
    IF 10 * s2 * n1 = 11 * s1 * n2
    THEN s1 > 0 /\ AboveAtTie(s2, n2, s1, n1, Exponent(s1, n1), Exponent(s2, n2))
    ELSE 10 * s2 * n1 > 11 * s1 * n2

\* secondHalf < firstHalf * 0.9, likewise: a second half of exactly 0.9
\* times the first is below the product where the product rounds up, as
\* for the daily totals 10, 20, 20, 15, 15, 15.
BelowTenPercent(s2, n2, s1, n1) ==
    IF 10 * s2 * n1 = 9 * s1 * n2
    THEN s1 > 0 /\ BelowAtTie(s2, n2, s1, n1, Exponent(s1, n1), Exponent(s2, n2))
    ELSE 10 * s2 * n1 < 9 * s1 * n2

\* Trend of the daily totals: first half against second half, by index.
\* A half whose sum is no number compares false both ways.
Trend(dailyTotals) ==
    IF Len(dailyTotals) >= 4
    THEN LET n == Len(dailyTotals)
             midpoint == n \div 2
             s1 == ToNumber(SeqSum(SubSeq(dailyTotals, 1, midpoint)))
             s2 == ToNumber(SeqSum(SubSeq(dailyTotals, midpoint + 1, n)))
         IN IF s1 = NaN \/ s2 = NaN THEN "stable"
            ELSE IF AboveTenPercent(s2, n - midpoint, s1, midpoint) THEN "increasing"
            ELSE IF BelowTenPercent(s2, n - midpoint, s1, midpoint) THEN "decreasing"
            ELSE "stable"
    ELSE "stable"

\* totalMinutes and averageDailyMinutes are in hundredths of a minute.
calculateWeeklyStats(logs) ==
    IF Len(logs) = 0
    THEN [totalMinutes |-> 0, averageDailyMinutes |-> 0, daysActive |-> 0,
          trend |-> "stable", apps |-> <<>>]
    ELSE LET dailyTotals == DailyTotals(logs)
             totalMinutes == SeqSum(dailyTotals)
             size == Len(dailyTotals)
         IN [totalMinutes |-> Round2OrNaN(totalMinutes, 1),
             averageDailyMinutes |-> Round2OrNaN(totalMinutes, Max(1, size)),
             daysActive |-> size,
             trend |-> Trend(dailyTotals),
             apps |-> AppBreakdown(logs)]

\* Mutant: the average is taken over the records, not over the days.
calculateMonthlyStatsPerRecord(logs) ==
    IF Len(logs) = 0
    THEN [totalMinutes |-> 0, averageDailyMinutes |-> 0, daysActive |-> 0]
    ELSE LET dailyTotals == DailyTotals(logs)
             totalMinutes == SeqSum(dailyTotals)
         IN [totalMinutes |-> Round2(totalMinutes, 1),
             averageDailyMinutes |-> Round2(totalMinutes, Max(1, Len(logs))),
             daysActive |-> Len(dailyTotals)]

\* totalMinutes and averageDailyMinutes are in hundredths of a minute.
calculateMonthlyStats(logs) ==
    IF Len(logs) = 0
    THEN [totalMinutes |-> 0, averageDailyMinutes |-> 0, daysActive |-> 0]
    ELSE LET dailyTotals == DailyTotals(logs)
             totalMinutes == SeqSum(dailyTotals)
             size == Len(dailyTotals)
         IN [totalMinutes |-> Round2OrNaN(totalMinutes, 1),
             averageDailyMinutes |-> Round2OrNaN(totalMinutes, Max(1, size)),
             daysActive |-> size]

\* The factors are kept as multiples of 1 / Q points; Q makes every quotient
\* below exact (avgDaily is in hundredths, so its divisors are 100 times the code's).
Q == 2400 * 7

AvgDailyFactor(avgDaily) ==
    IF avgDaily >= 36000 THEN 40 * Q
    ELSE IF avgDaily >= 24000 THEN 30 * Q + ((avgDaily - 24000) * 5 * Q) \div 12000
    ELSE IF avgDaily >= 12000 THEN 20 * Q + ((avgDaily - 12000) * 10 * Q) \div 12000
    ELSE IF avgDaily >= 6000 THEN 10 * Q + ((avgDaily - 6000) * 10 * Q) \div 6000
    ELSE (avgDaily * 10 * Q) \div 6000

\* Mutant: the lowest tier of the peak factor copies the 10 points of the
\* average factor.
PeakFactorCopied(peakMinutes) ==
    IF peakMinutes >= 360 THEN 20 * Q
    ELSE IF peakMinutes >= 240 THEN 15 * Q + ((peakMinutes - 240) * 5 * Q) \div 120
    ELSE IF peakMinutes >= 120 THEN 10 * Q + ((peakMinutes - 120) * 5 * Q) \div 120
    ELSE (peakMinutes * 10 * Q) \div 120

PeakFactor(peakMinutes) ==
    IF peakMinutes >= 360 THEN 20 * Q
    ELSE IF peakMinutes >= 240 THEN 15 * Q + ((peakMinutes - 240) * 5 * Q) \div 120
    ELSE IF peakMinutes >= 120 THEN 10 * Q + ((peakMinutes - 120) * 5 * Q) \div 120
    ELSE (peakMinutes * 5 * Q) \div 120

ConsistencyFactor(daysActive) == (daysActive * 20 * Q) \div 7

TrendFactor(trend) ==
    IF trend = "increasing" THEN 20 * Q
    ELSE IF trend = "stable" THEN 10 * Q
    ELSE 5 * Q

\* Mutant: the thresholds are exclusive.
CategorizeExclusive(score) ==
    IF score > 70 THEN [score |-> score, category |-> "High", level |-> "high"]
    ELSE IF score > 40 THEN [score |-> score, category |-> "Moderate", level |-> "moderate"]
    ELSE [score |-> score, category |-> "Low", level |-> "low"]

\* score >= 70 High/high, score >= 40 Moderate/moderate, else Low/low.
Categorize(score) ==
    IF score >= 70 THEN [score |-> score, category |-> "High", level |-> "high"]
    ELSE IF score >= 40 THEN [score |-> score, category |-> "Moderate", level |-> "moderate"]
    ELSE [score |-> score, category |-> "Low", level |-> "low"]

\* The sum of the four factors, in 1 / Q points, before rounding and clamping.
\* An average or a peak that is NaN fails every comparison of its tiers
\* and makes the sum NaN.
RiskRaw(weeklyLogs) ==
    LET weeklyStats == calculateWeeklyStats(weeklyLogs)
        peakMinutes == SeqMax(DailyTotals(weeklyLogs))
    IN IF weeklyStats.averageDailyMinutes = NaN \/ peakMinutes = NaN THEN NaN
       ELSE AvgDailyFactor(weeklyStats.averageDailyMinutes) + PeakFactor(peakMinutes)
              + ConsistencyFactor(weeklyStats.daysActive)
              + TrendFactor(weeklyStats.trend)

\* Mutant: the rounded sum is returned without Math.max and Math.min.
calculateRiskScoreUnclamped(weeklyLogs) ==
    IF Len(weeklyLogs) = 0
    THEN [score |-> 0, category |-> "Low", level |-> "low"]
    ELSE LET raw == RiskRaw(weeklyLogs)
         IN IF raw = NaN THEN Categorize(NaN)
            ELSE Categorize(MathRound(raw, Q))

\* Math.max(0, Math.min(100, Math.round(NaN))) is NaN, which is neither
\* >= 70 nor >= 40.
calculateRiskScore(weeklyLogs) ==
    IF Len(weeklyLogs) = 0
    THEN [score |-> 0, category |-> "Low", level |-> "low"]
    ELSE LET raw == RiskRaw(weeklyLogs)
         IN IF raw = NaN THEN Categorize(NaN)
            ELSE Categorize(Max(0, Min(100, MathRound(raw, Q))))

(***************************************************************************)
(* Time series for the charts (getTimeSeriesData of the analytics engine).  *)
(* Day 0 is Monday 2024-01-01.  A record's date is the Date of midnight    *)
(* UTC of its day; getDate, getDay, setDate, getFullYear and getMonth work *)
(* in the local time of the server, toISOString in UTC.  utcOffset is the  *)
(* offset of the local time in hours.  A daily or weekly key 'YYYY-MM-DD'  *)
(* is its day number and a monthly key 'YYYY-MM' the number of the month   *)
(* counted from 2024-01 = 1: the order of the numbers is the order of the  *)
(* strings under localeCompare.                                            *)
(***************************************************************************)
\* date.getDay(): 0 is Sunday.
getDay(localDay) == (localDay + 1) % 7

\* The local calendar day at midnight UTC of day d: the evening of the day
\* before, west of Greenwich.
LocalDay(d, utcOffset) == IF utcOffset < 0 THEN d - 1 ELSE d

\* toISOString().split('T')[0] of a Date that setDate has moved to localDay,
\* the local time of day being kept.
ISODay(localDay, utcOffset) == IF utcOffset < 0 THEN localDay + 1 ELSE localDay

\* getFullYear() and getMonth() + 1 of a local day of December 2023 to
\* March 2024.
MonthKey(localDay) ==
    IF localDay < 0 THEN 0
    ELSE IF localDay < 31 THEN 1
    ELSE IF localDay < 60 THEN 2
    ELSE 3

BucketKey(d, period, utcOffset) ==
    IF period = "daily" THEN d
    ELSE IF period = "weekly"
    THEN LET localDay == LocalDay(d, utcOffset)
             weekStart == localDay - getDay(localDay) + 1
         IN ISODay(weekStart, utcOffset)
    ELSE MonthKey(LocalDay(d, utcOffset))

\* The Map from bucket key to summed minutes, filled in list order.
SeriesMap(logs, period, utcOffset) ==
    LET RECURSIVE Fill(_)
        Fill(n) ==
            IF n = 0 THEN <<>>
            ELSE LET m == Fill(n - 1)
                     key == BucketKey(logs[n].date, period, utcOffset)
                     hit == {i \in 1..Len(m) : m[i].key = key}
                 IN IF hit = {}
                    THEN Append(m, [key |-> key, value |-> Plus(0, logs[n].minutesSpent)])
                    ELSE LET i == CHOOSE i \in hit : TRUE
                         IN [m EXCEPT ![i].value = Plus(OrZero(@), logs[n].minutesSpent)]
    IN Fill(Len(logs))

\* Mutant: the latest bucket first.
RECURSIVE InsertByKeyDescending(_, _)
InsertByKeyDescending(sorted, a) ==
    IF sorted = <<>> THEN <<a>>
    ELSE IF Head(sorted).date >= a.date
         THEN <<Head(sorted)>> \o InsertByKeyDescending(Tail(sorted), a)
         ELSE <<a>> \o sorted

\* .sort((a, b) => a.date.localeCompare(b.date))
RECURSIVE InsertByKey(_, _)
InsertByKey(sorted, a) ==
    IF sorted = <<>> THEN <<a>>
    ELSE IF Head(sorted).date <= a.date
         THEN <<Head(sorted)>> \o InsertByKey(Tail(sorted), a)
         ELSE <<a>> \o sorted

RECURSIVE SortByKey(_)
SortByKey(as) ==
    IF as = <<>> THEN <<>>
    ELSE InsertByKey(SortByKey(Front(as)), Last(as))

\* minutes is in hundredths of a minute.
getTimeSeriesData(logs, period, utcOffset) ==
    IF Len(logs) = 0 THEN <<>>
    ELSE LET m == SeriesMap(logs, period, utcOffset)
         IN SortByKey([i \in 1..Len(m) |->
                [date |-> m[i].key, minutes |-> Round2OrNaN(m[i].value, 1)]])

(***************************************************************************)
(* Regret analysis (frontend/src/utils/regretAnalysis.js).                 *)
(* dailyAvg is in hundredths of a minute, the two frequencies in           *)
(* hundredths.  A contribution is <<score, attentionDrain, burnout,        *)
(* habitualScrolling>>.                                                    *)
(***************************************************************************)
DailyAvgRegret(dailyAvg) ==
    IF dailyAvg >= 24000 THEN <<30, 20, 10, 0>>
    ELSE IF dailyAvg >= 18000 THEN <<20, 15, 5, 0>>
    ELSE IF dailyAvg >= 12000 THEN <<10, 10, 0, 0>>
    ELSE <<0, 0, 0, 0>>

LateNightRegret(lateNightFrequency) ==
    IF lateNightFrequency >= 50 THEN <<25, 0, 20, 5>>
    ELSE IF lateNightFrequency >= 30 THEN <<15, 0, 15, 0>>
    ELSE IF lateNightFrequency >= 15 THEN <<8, 0, 8, 0>>
    ELSE <<0, 0, 0, 0>>

IntentDriftRegret(intentDriftFrequency) ==
    IF intentDriftFrequency >= 60 THEN <<25, 5, 0, 20>>
    ELSE IF intentDriftFrequency >= 40 THEN <<15, 0, 0, 15>>
    ELSE IF intentDriftFrequency >= 20 THEN <<8, 0, 0, 8>>
    ELSE <<0, 0, 0, 0>>

RiskTrendRegret(riskScoreTrend) ==
    IF riskScoreTrend = "increasing" THEN <<10, 5, 5, 0>>
    ELSE IF riskScoreTrend = "stable_high" THEN <<5, 0, 0, 5>>
    ELSE <<0, 0, 0, 0>>

\* Mutant: the honesty thresholds are inclusive.
HonestyRegretInclusive(honestyScore) ==
    IF honestyScore <= 60 THEN <<10, 0, 0, 5>>
    ELSE IF honestyScore <= 80 THEN <<5, 0, 0, 0>>
    ELSE <<0, 0, 0, 0>>

HonestyRegret(honestyScore) ==
    IF honestyScore < 60 THEN <<10, 0, 0, 5>>
    ELSE IF honestyScore < 80 THEN <<5, 0, 0, 0>>
    ELSE <<0, 0, 0, 0>>

RegretLevel(regretScore) ==
    IF regretScore >= 70 THEN "high"
    ELSE IF regretScore >= 40 THEN "medium"
    ELSE "low"

\* Object.keys(regretTypes).reduce((a, b) => regretTypes[a] > regretTypes[b] ? a : b)
RegretKeys == <<"attentionDrain", "burnout", "habitualScrolling">>

\* Mutant: the reducer keeps the earlier key on a tie (>= for >).
DominantTypeKeepFirst(regretTypes) ==
    LET Step(a, b) == IF regretTypes[a] >= regretTypes[b] THEN a ELSE b
    IN Step(Step(RegretKeys[1], RegretKeys[2]), RegretKeys[3])

DominantType(regretTypes) ==
    LET Step(a, b) == IF regretTypes[a] > regretTypes[b] THEN a ELSE b
    IN Step(Step(RegretKeys[1], RegretKeys[2]), RegretKeys[3])

analyzeRegretPatterns(data) ==
    LET parts == <<DailyAvgRegret(data.dailyAvg),
                   LateNightRegret(data.lateNightFrequency),
                   IntentDriftRegret(data.intentDriftFrequency),
                   RiskTrendRegret(data.riskScoreTrend),
                   HonestyRegret(data.honestyScore)>>
        Column(k) == LET At(i) == parts[i][k] IN SumRange(At, 1, 5)
        regretScore == Min(100, Max(0, Column(1)))
        regretTypes == [attentionDrain |-> Column(2), burnout |-> Column(3),
                        habitualScrolling |-> Column(4)]
    IN [regretScore |-> regretScore,
        regretLevel |-> RegretLevel(regretScore),
        regretTypes |-> regretTypes,
        dominantType |-> DominantType(regretTypes)]

\* The item of the list when nothing else is on it.
GenericItem == "Not being more intentional about your digital habits"

\* The items of generateRegretList in the order they are pushed, each with
\* its test; the frequencies and dailyAvg are in hundredths.
GatedItems(analysis, stats) ==
    << <<stats.lateNightFrequency > 30,
         "Late-night scrolling that disrupted your sleep">>,
       <<stats.intentDriftFrequency > 40,
         "Opening apps without a clear purpose">>,
       <<stats.dailyAvg > 180 * 100,
         "Spending 3+ hours a day on social media">>,
       <<analysis.regretTypes.habitualScrolling > 15,
         "Mindless scrolling on autopilot">>,
       <<analysis.regretTypes.attentionDrain > 15,
         "Fragmented attention from constant app switching">>,
       <<analysis.regretTypes.burnout > 15,
         "Using apps as a form of \"rest\" that actually exhausted you">>,
       <<stats.repeatedOpens > 5,
         "Checking the same apps multiple times per day">> >>

\* Mutant: the list is returned as it is, also when it is empty.
generateRegretListNoFallback(analysis, stats) ==
    LET gated == GatedItems(analysis, stats)
        Pushed(g) == g[1]
        pushed == SelectSeq(gated, Pushed)
    IN [i \in 1..Len(pushed) |-> pushed[i][2]]

generateRegretList(analysis, stats) ==
    LET gated == GatedItems(analysis, stats)
        Pushed(g) == g[1]
        pushed == SelectSeq(gated, Pushed)
        items == [i \in 1..Len(pushed) |-> pushed[i][2]]
    IN IF Len(items) = 0 THEN <<GenericItem>> ELSE items

(***************************************************************************)
(* Mirror patterns (frontend/src/utils/mirrorLogic.js).                    *)
(***************************************************************************)
\* String.prototype.toLowerCase on the intentions of the model.
ToLowerCase(s) ==
    IF s = "Relax" THEN "relax" ELSE IF s = "News" THEN "news" ELSE s

\* capitalizeFirst: str.charAt(0).toUpperCase() + str.slice(1).
capitalizeFirst(s) ==
    IF s = "relax" THEN "Relax" ELSE IF s = "news" THEN "News" ELSE s

\* e.intention && e.foundIt !== null
HasIntentionAndFoundIt(e) == e.intention # "" /\ e.foundIt # "null"

\* new Date(entry.createdAt).getHours() is 22 or later, or before 6;
\* an entry without createdAt is never late.
IsLateNight(e) ==
    /\ e.createdAt # <<>>
    /\ (e.createdAt[1] >= 22 \/ e.createdAt[1] < 6)

CountIf(s, Test(_)) == Len(SelectSeq(s, Test))

\* Keys of the intention Map: lowercased intentions, first seen first.
RECURSIVE IntentionKeys(_)
IntentionKeys(es) ==
    IF es = <<>> THEN <<>>
    ELSE LET ks == IntentionKeys(Front(es))
             k == ToLowerCase(Last(es).intention)
         IN IF \E i \in 1..Len(ks) : ks[i] = k THEN ks ELSE Append(ks, k)

\* Number of dates of the group that hold more than one of its entries.
RepeatedOpens(groupEntries) ==
    LET ks == DateKeys(groupEntries)
        OnDay(d) == LET Same(e) == e.date = d IN CountIf(groupEntries, Same)
        Repeated(d) == OnDay(d) > 1
    IN CountIf(ks, Repeated)

\* Mutant: the long-session rule is tried before the not-found rule.
MirrorPatternReordered(totalCount, foundItCount, sumMinutes, lateNightCount) ==
    IF sumMinutes > 60 * totalCount /\ 10 * foundItCount < 7 * totalCount
    THEN "long_session_not_found"
    ELSE IF 2 * foundItCount < totalCount /\ totalCount >= 3 THEN "not_found"
    ELSE IF lateNightCount > 0 /\ 10 * lateNightCount > 4 * totalCount
         THEN "late_night"
    ELSE "none"

\* The pattern of a group, first match first; "none" when no insight is pushed.
\* foundItRate < 0.5 is 2 * foundItCount < totalCount, avgMinutes > 60 is
\* sum > 60 * totalCount, and so on.
MirrorPattern(totalCount, foundItCount, sumMinutes, lateNightCount) ==
    IF 2 * foundItCount < totalCount /\ totalCount >= 3 THEN "not_found"
    ELSE IF sumMinutes > 60 * totalCount /\ 10 * foundItCount < 7 * totalCount
         THEN "long_session_not_found"
    ELSE IF lateNightCount > 0 /\ 10 * lateNightCount > 4 * totalCount
         THEN "late_night"
    ELSE "none"

\* Math.round(sum / count), NaN if the sum is.
AverageMinutes(sumMinutes, totalCount) ==
    IF sumMinutes = NaN THEN NaN ELSE MathRound(sumMinutes, totalCount)

\* The message of an insight: the template of its pattern and the values
\* put into it.
InsightMessage(pattern, intentionText, totalCount, foundItCount, notFoundCount, sumMinutes, lateNightCount) ==
    CASE pattern = "not_found" ->
           [text |-> "You opened apps to ${intention}. You didn't find it ${notFoundCount} out of ${totalCount} times. This pattern occurred ${totalCount} times.",
            intention |-> ToLowerCase(intentionText),
            notFoundCount |-> notFoundCount,
            totalCount |-> totalCount]
      [] pattern = "long_session_not_found" ->
           [text |-> "You opened apps to ${intention}. You spent an average of ${avgMinutes} minutes but only found what you were looking for ${foundItPercent}% of the time.",
            intention |-> ToLowerCase(intentionText),
            avgMinutes |-> AverageMinutes(sumMinutes, totalCount),
            foundItPercent |-> Round2(foundItCount, totalCount)]
      [] pattern = "late_night" ->
           [text |-> "You opened apps to ${intention} ${lateNightCount} times late at night. You closed them feeling ${feeling}. This pattern occurred ${totalCount} times this week.",
            intention |-> ToLowerCase(intentionText),
            lateNightCount |-> lateNightCount,
            feeling |-> IF 2 * foundItCount < totalCount
                        THEN "more tired" ELSE "unsatisfied",
            totalCount |-> totalCount]

\* The insights pushed for one group: one or none.  foundItRate is the
\* quotient <<foundItCount, totalCount>>.  The sum of the minutes is NaN if
\* one of them is a string with no number; NaN > 60 is false.
GroupInsights(groupEntries, intention) ==
    LET totalCount == Len(groupEntries)
        Found(e) == e.foundIt = "true"
        NotFound(e) == e.foundIt = "false"
        foundItCount == CountIf(groupEntries, Found)
        notFoundCount == CountIf(groupEntries, NotFound)
        sumMinutes == LET RECURSIVE Sum(_)
                          Sum(n) == IF n = 0 THEN 0
                                    ELSE LET sum == Sum(n - 1)
                                         IN Plus(sum, ParsedMinutes(groupEntries[n]))
                      IN Sum(totalCount)
        lateNightCount == CountIf(groupEntries, IsLateNight)
        pattern == MirrorPattern(totalCount, foundItCount, sumMinutes, lateNightCount)
        intentionText == capitalizeFirst(intention)
    IN IF pattern = "none" THEN <<>>
       ELSE <<[intention |-> intentionText,
               pattern |-> pattern,
               count |-> totalCount,
               foundItRate |-> <<foundItCount, totalCount>>,
               avgMinutes |-> AverageMinutes(sumMinutes, totalCount),
               lateNightCount |-> lateNightCount,
               repeatedOpens |-> RepeatedOpens(groupEntries),
               message |-> InsightMessage(pattern, intentionText, totalCount,
                                          foundItCount, notFoundCount,
                                          sumMinutes, lateNightCount)]>>

\* insights.sort((a, b) => b.count - a.count): stable, largest count first.
RECURSIVE InsertByCountDesc(_, _)
InsertByCountDesc(sorted, a) ==
    IF sorted = <<>> THEN <<a>>
    ELSE IF Head(sorted).count >= a.count
         THEN <<Head(sorted)>> \o InsertByCountDesc(Tail(sorted), a)
         ELSE <<a>> \o sorted

RECURSIVE SortByCountDesc(_)
SortByCountDesc(as) ==
    IF as = <<>> THEN <<>>
    ELSE InsertByCountDesc(SortByCountDesc(Front(as)), Last(as))

analyzeMirrorPatterns(es) ==
    LET entriesWithIntention == SelectSeq(es, HasIntentionAndFoundIt)
        keys == IntentionKeys(entriesWithIntention)
        Group(k) == LET In(e) == ToLowerCase(e.intention) = k
                    IN SelectSeq(entriesWithIntention, In)
        RECURSIVE Insights(_)
        Insights(n) ==
            IF n = 0 THEN <<>>
            ELSE Insights(n - 1) \o GroupInsights(Group(keys[n]), keys[n])
    IN SortByCountDesc(Insights(Len(keys)))

(***************************************************************************)
(* Before/after comparison (frontend/src/utils/beforeAfterAnalysis.js).    *)
(***************************************************************************)
Null == [isNull |-> TRUE]

\* Array.from(dateMap.keys()).sort(): date strings in ascending order.
RECURSIVE InsertAscending(_, _)
InsertAscending(sorted, d) ==
    IF sorted = <<>> THEN <<d>>
    ELSE IF Head(sorted) <= d
         THEN <<Head(sorted)>> \o InsertAscending(Tail(sorted), d)
         ELSE <<d>> \o sorted

RECURSIVE SortAscending(_)
SortAscending(ds) ==
    IF ds = <<>> THEN <<>> ELSE InsertAscending(SortAscending(Front(ds)), Last(ds))

\* The totals of the dates of the Map, first seen first: the entries of a
\* date reduced by sum + parseFloat(e.minutesSpent || 0).
MetricsDailyTotals(es) ==
    LET ks == DateKeys(es)
        Total(d) ==
            LET RECURSIVE Sum(_)
                Sum(n) == IF n = 0 THEN 0
                          ELSE IF es[n].date = d
                          THEN LET sum == Sum(n - 1)
                               IN Plus(sum, ParsedMinutes(es[n]))
                          ELSE Sum(n - 1)
            IN Sum(Len(es))
    IN [i \in 1..Len(ks) |-> Total(ks[i])]

\* Simplified risk score of a window, in sevenths of a point before rounding:
\* a base by tier of total / days, plus (daysActive / 7) * 20, at most 100.
\* A total that is NaN fails every comparison and gets the base 10.
MetricsRiskScore(totalMinutes, daysActive) ==
    LET base == IF totalMinutes >= 360 * daysActive THEN 80
                ELSE IF totalMinutes >= 240 * daysActive THEN 60
                ELSE IF totalMinutes >= 120 * daysActive THEN 40
                ELSE IF totalMinutes >= 60 * daysActive THEN 20
                ELSE 10
    IN MathRound(Min(100 * 7, base * 7 + daysActive * 20), 7)

\* Simplified honesty score of a window: gaps between its distinct dates
\* and unrealistic entries, no spike check.
MetricsHonestyScore(es) ==
    LET dates == SortAscending(DateKeys(es))
        Gap(i) == LET daysDiff == dates[i] - dates[i - 1]
                  IN IF daysDiff > 7 THEN Min(30, (daysDiff - 7) * 5) ELSE 0
        Unrealistic(i) == IF ParsedMinutes(es[i]) > 960 THEN 10 ELSE 0
    IN Max(0, Min(100, 100 - SumRange(Gap, 2, Len(dates))
                           - SumRange(Unrealistic, 1, Len(es))))

\* avgDailyMinutes and totalMinutes are in hundredths of a minute,
\* lateNightFrequency in hundredths.
calculateMetrics(es) ==
    IF Len(es) = 0
    THEN [avgDailyMinutes |-> 0, lateNightFrequency |-> 0, riskScore |-> 0,
          honestyScore |-> 100, totalMinutes |-> 0, daysActive |-> 0]
    ELSE LET dailyTotals == MetricsDailyTotals(es)
             totalMinutes == SeqSum(dailyTotals)
             daysActive == Len(dailyTotals)
             lateNightCount == CountIf(es, IsLateNight)
         IN [avgDailyMinutes |-> Round2OrNaN(totalMinutes, daysActive),
             lateNightFrequency |-> Round2(lateNightCount, Len(es)),
             riskScore |-> MetricsRiskScore(totalMinutes, daysActive),
             honestyScore |-> MetricsHonestyScore(es),
             totalMinutes |-> Round2OrNaN(totalMinutes, 1),
             daysActive |-> daysActive]

\* Mutant: the first window takes one day too many (<= for <).
InFirstNDaysInclusive(e, firstDate, daysToCompare) == e.date - firstDate <= daysToCompare

\* daysDiff < daysToCompare, counted from the first date of the sorted entries.
InFirstNDays(e, firstDate, daysToCompare) == e.date - firstDate < daysToCompare

\* daysDiff < daysToCompare, counted back from the last date of the sorted entries.
InLastNDays(e, lastDate, daysToCompare) == lastDate - e.date < daysToCompare

\* The differences are those of the rounded metrics, in their units; only
\* avgDailyMinutes can be NaN (the other three metrics are numbers, none
\* negative).
Changes(beforeMetrics, afterMetrics) ==
    [dailyUsage |-> Minus(afterMetrics.avgDailyMinutes, beforeMetrics.avgDailyMinutes),
     lateNightUsage |-> Minus(afterMetrics.lateNightFrequency, beforeMetrics.lateNightFrequency),
     riskScore |-> Minus(afterMetrics.riskScore, beforeMetrics.riskScore),
     honestyScore |-> Minus(afterMetrics.honestyScore, beforeMetrics.honestyScore)]

calculateBeforeAfter(es, daysToCompare) ==
    IF Len(es) = 0 THEN Null
    ELSE LET sortedEntries == SortByDate(es)
             firstDate == sortedEntries[1].date
             lastDate == Last(sortedEntries).date
             First(e) == InFirstNDays(e, firstDate, daysToCompare)
             Recent(e) == InLastNDays(e, lastDate, daysToCompare)
             firstNDays == SelectSeq(sortedEntries, First)
             lastNDays == SelectSeq(sortedEntries, Recent)
         IN IF Len(firstNDays) = 0 \/ Len(lastNDays) = 0 THEN Null
            ELSE LET beforeMetrics == calculateMetrics(firstNDays)
                     afterMetrics == calculateMetrics(lastNDays)
                 IN [before |-> beforeMetrics,
                     after |-> afterMetrics,
                     changes |-> Changes(beforeMetrics, afterMetrics),
                     daysCompared |-> daysToCompare]

(***************************************************************************)
(* The analysis of the simulator page                                      *)
(* (frontend/src/pages/FutureRegretSimulator.jsx).                         *)
(***************************************************************************)
\* count / total of the page's two frequencies, in hundredths and rounded
\* down.  On lists of fewer than 13 entries no quotient lies between a
\* threshold of the analysis or of the list and the next hundredth, so
\* every comparison made on the hundredths is the comparison made on the
\* quotient.
Frequency(count, total) == IF total > 0 THEN (100 * count) \div total ELSE 0

\* The statistics the page gives to generateRegretList.
ListStatsOf(data) ==
    [dailyAvg |-> data.dailyAvg,
     lateNightFrequency |-> data.lateNightFrequency,
     intentDriftFrequency |-> data.intentDriftFrequency,
     repeatedOpens |-> 0]

\* The value of the useMemo of the page for the logs and the dashboard it
\* has fetched; dashboardData is Null until the dashboard has arrived.  The
\* letter and the statistics shown beside it are left out.
FutureRegretSimulator(es, dashboardData) ==
    IF Len(es) = 0 \/ dashboardData = Null THEN Null
    ELSE LET entriesWithIntention == SelectSeq(es, HasIntentionAndFoundIt)
             NotFound(e) == e.foundIt = "false"
             data == [entries |-> es,
                      dailyAvg |-> OrZero(dashboardData.weekly.averageDailyMinutes),
                      lateNightFrequency |->
                          Frequency(CountIf(es, IsLateNight), Len(es)),
                      intentDriftFrequency |->
                          Frequency(CountIf(entriesWithIntention, NotFound),
                                    Len(entriesWithIntention)),
                      riskScoreTrend |->
                          IF dashboardData.weekly.trend = "increasing" THEN "increasing"
                          ELSE IF dashboardData.riskScore.score > 60 THEN "stable_high"
                          ELSE "stable",
                      honestyScore |-> calculateDigitalHonestyScore(es)]
             regretData == analyzeRegretPatterns(data)
         IN [regretScore |-> regretData.regretScore,
             regretLevel |-> regretData.regretLevel,
             regretTypes |-> regretData.regretTypes,
             dominantType |-> regretData.dominantType,
             regretList |-> generateRegretList(regretData, ListStatsOf(data))]

(***************************************************************************)
(* Inputs.                                                                 *)
(***************************************************************************)
Record(app, minutes, date, createdAt, intention, foundIt) ==
    [appName |-> app, minutesSpent |-> minutes, date |-> date,
     createdAt |-> createdAt, intention |-> intention, foundIt |-> foundIt]

Plain(minutes, date) == Record("Instagram", minutes, date, <<>>, "", "null")

\* Records far enough apart for every gap to cost the full 30 points.
ScoreRecords == {Plain(m, d) : m \in {100, 961}, d \in {0, 15, 30, 45}}

\* Records whose dates make gaps of 0, 1, 10, 11, 14, 15 and 25 days, with
\* minutes of 0, 100 and 961 on days 0, 10 and 11, of exactly 960 on day 10
\* and of 100 on day 25.
GapRecords ==
    {Plain(m, d) : m \in {0, 100, 961}, d \in {0, 10, 11}}
        \cup {Plain(960, 10), Plain(100, 25)}

\* Minutes of one day of a week; they put the daily average and the peak day
\* in every tier of the risk score.
WeekMinutes == {30, 60, 150, 300, 400}

\* Minutes of a day of heavy use, and the most a day has.
ScoreDayMinutes == {400, 1440}

\* Inputs of the regret analysis around every threshold of its five factors.
RegretData ==
    [entries : {<<>>},
     dailyAvg : {0, 11999, 12000, 17999, 18000, 23999, 24000, 60000},
     lateNightFrequency : {0, 14, 15, 29, 30, 49, 50, 100},
     intentDriftFrequency : {0, 19, 20, 39, 40, 59, 60, 100},
     riskScoreTrend : {"increasing", "stable_high", "stable"},
     honestyScore : {0, 59, 60, 79, 80, 100}]

\* A long session by day (day 0) and a short one late at night (day 1).
\* foundIt "null" is a record whose answer is unknown, foundIt "undefined"
\* a record object without the property.
MirrorSessions == {<<90, <<>>, 0>>, <<30, <<23>>, 1>>}
MirrorRecords ==
    {Record("Instagram", s[1], s[3], s[2], i, f) :
        s \in MirrorSessions,
        i \in {"relax", "Relax", "news"},
        f \in {"true", "false", "null", "undefined"}}
    \cup {Record("Instagram", s[1], s[3], s[2], "", "true") : s \in MirrorSessions}

\* Two early and two late days; a 30-minute and a late-night 60-minute
\* session on each, and an unrealistic session on day 9.
CompareSessions == {<<30, <<>> >>, <<60, <<23>> >>}
CompareRecords ==
    {Record("Instagram", s[1], d, s[2], "", "null") :
        s \in CompareSessions, d \in {0, 1, 9, 10}}
    \cup {Record("Instagram", 961, 9, <<>>, "", "null")}
CompareDays == {2, 10}
TrendMinutes == {10, 11, 30, 50}
StatsRecords == {Plain(m, d) : m \in {10, 50}, d \in 0..3}
AppSet == {"Instagram", "YouTube", "TikTok"}
AppMinutes == {30, 60}
SeriesRecords == {Plain(m, d) : m \in {30, 45}, d \in {0, 5, 6, 7, 31}}
Periods == {"daily", "weekly", "monthly"}
TimeZones == {0, -5}
MalformedMinutes == {30, 1000, NaN}
DefaultRecords == {Plain(m, d) : m \in {0, 30, 960, 961, 1440}, d \in {0, 40}}
Components ==
    {"calculateDailyStats", "calculateWeeklyStats", "calculateMonthlyStats",
     "calculateRiskScore", "getTimeSeriesData", "calculateDigitalHonestyScore",
     "analyzeMirrorPatterns", "calculateBeforeAfter"}

(***************************************************************************)
(* State machine.  entries is the record collection the components are     *)
(* called on, call the last call made and result what it returned; earlier *)
(* are the last two calls, with the results they returned, that the caller *)
(* has held on to while it makes other calls.                              *)
(***************************************************************************)
NoCall == [fn |-> "none"]
NoResult == [kind |-> "none"]

\* A call and the result it returned, as a caller holds them.
Held(c, r) == [call |-> c, result |-> r]

\* The state before a call on the list es: nothing is called yet, no result
\* is held, and the table of the store is empty.
InputIs(es) ==
    /\ entries = SubSeq(es, 1, Len(es))
    /\ call = NoCall
    /\ result = NoResult
    /\ usageLogs = {}
    /\ nextId = 1
    /\ pending = EmptyBag
    /\ earlier = <<Held(NoCall, NoResult), Held(NoCall, NoResult)>>

Init == InputIs(<<>>)

\* The store holds one record per app and date: the k-th record of a date
\* in a list is of the k-th app.
AppNames == <<"Instagram", "YouTube", "TikTok", "Reddit", "Facebook", "Snapchat">>

SameDateUpTo(rs, i) == {j \in 1..i : rs[j].date = rs[i].date}

WithApps(rs) ==
    [i \in 1..Len(rs) |-> [rs[i] EXCEPT !.appName = AppNames[Cardinality(SameDateUpTo(rs, i))]]]

\* The argument of a component: any list of at most max records of a set.
InitList(Records, max) ==
    \E k \in 0..max : \E rs \in [1..k -> Records] : InputIs(WithApps(rs))

RiskScore ==
    /\ call' = [fn |-> "calculateRiskScore"]
    /\ result' = calculateRiskScore(entries)
    /\ UNCHANGED entries
    /\ UNCHANGED <<storeVars, earlier>>

\* The arrays of a call that sorts: the array the caller passed, and the
\* array the function allocates.
Arrays(es) == [argument |-> es, copy |-> <<>>]

\* [...entries]: a new array of the elements of the argument.
Spread(arrays) == [arrays EXCEPT !.copy = arrays.argument]

\* Array.prototype.sort by date: the array it is called on is put in date
\* order in place.
SortArray(arrays, array) == [arrays EXCEPT ![array] = SortByDate(@)]

\* Mutant: entries.sort(...), the array that was passed is sorted.
ArgumentSortedInPlace(es) == SortArray(Arrays(es), "argument").argument

\* The caller's array after a call that sorts: [...entries].sort(...)
\* sorts the new array.
ArgumentAfterSort(es) == SortArray(Spread(Arrays(es)), "copy").argument

HonestyScore ==
    /\ call' = [fn |-> "calculateDigitalHonestyScore"]
    /\ result' = calculateDigitalHonestyScore(entries)
    /\ entries' = ArgumentAfterSort(entries)
    /\ UNCHANGED <<storeVars, earlier>>

\* analyzeRegretPatterns reads nothing but its argument (data.entries is not
\* used), so it is called from the initial state only: every input of
\* RegretData is tried once.
RegretAnalysis ==
    /\ entries = <<>>
    /\ call = NoCall
    /\ \E data \in RegretData :
        /\ call' = [fn |-> "analyzeRegretPatterns", data |-> data]
        /\ result' = analyzeRegretPatterns(data)
        /\ entries' = data.entries
        /\ UNCHANGED <<storeVars, earlier>>

WeeklyStats ==
    /\ call' = [fn |-> "calculateWeeklyStats"]
    /\ result' = calculateWeeklyStats(entries)
    /\ UNCHANGED entries
    /\ UNCHANGED <<storeVars, earlier>>

MonthlyStats ==
    /\ call' = [fn |-> "calculateMonthlyStats"]
    /\ result' = calculateMonthlyStats(entries)
    /\ UNCHANGED entries
    /\ UNCHANGED <<storeVars, earlier>>

DailyStats ==
    /\ call' = [fn |-> "calculateDailyStats"]
    /\ result' = calculateDailyStats(entries)
    /\ UNCHANGED entries
    /\ UNCHANGED <<storeVars, earlier>>

\* The server's time zone is an input of the call, as the period is.
TimeSeries ==
    \E period \in Periods, utcOffset \in TimeZones :
        /\ call' = [fn |-> "getTimeSeriesData", period |-> period, utcOffset |-> utcOffset]
        /\ result' = getTimeSeriesData(entries, period, utcOffset)
        /\ UNCHANGED entries
        /\ UNCHANGED <<storeVars, earlier>>

\* The value of a component on the collection logs, period and
\* daysToCompare being left to their defaults ('daily', 7).
Component(fn, logs) ==
    CASE fn = "calculateDailyStats" -> calculateDailyStats(logs)
      [] fn = "calculateWeeklyStats" -> calculateWeeklyStats(logs)
      [] fn = "calculateMonthlyStats" -> calculateMonthlyStats(logs)
      [] fn = "calculateRiskScore" -> calculateRiskScore(logs)
      [] fn = "getTimeSeriesData" -> getTimeSeriesData(logs, "daily", 0)
      [] fn = "calculateDigitalHonestyScore" -> calculateDigitalHonestyScore(logs)
      [] fn = "analyzeMirrorPatterns" -> analyzeMirrorPatterns(logs)
      [] fn = "calculateBeforeAfter" -> calculateBeforeAfter(logs, 7)

\* A component called without a collection (null or undefined).  Every
\* component begins with `if (!logs || logs.length === 0) return ...`:
\* !logs is true of null and of undefined, and the statement returns what
\* it returns for the empty collection.
CallOnAbsent ==
    \E fn \in Components :
        /\ call' = [fn |-> fn, absent |-> TRUE]
        /\ result' = Component(fn, <<>>)
        /\ UNCHANGED entries
        /\ UNCHANGED <<storeVars, earlier>>

MirrorAnalysis ==
    /\ call' = [fn |-> "analyzeMirrorPatterns"]
    /\ result' = analyzeMirrorPatterns(entries)
    /\ UNCHANGED entries
    /\ UNCHANGED <<storeVars, earlier>>

BeforeAfter ==
    \E n \in CompareDays :
        /\ call' = [fn |-> "calculateBeforeAfter", daysToCompare |-> n]
        /\ result' = calculateBeforeAfter(entries, n)
        /\ entries' = ArgumentAfterSort(entries)
        /\ UNCHANGED <<storeVars, earlier>>

\* The arguments the components are called on, one set of lists for each
\* specification.
\* One record a day, day after day.
WeekList(ms) == [i \in 1..Len(ms) |-> Plain(ms[i], i - 1)]

\* For the scores: lists of records that are far apart, and lists of one
\* record a day for up to MaxScoreDays days, each above the 360 minutes of
\* the highest tiers of the risk score.
InitScores ==
    \/ InitList(ScoreRecords, MaxEntries)
    \/ \E k \in 0..MaxScoreDays :
            \E ms \in [1..k -> ScoreDayMinutes] : InputIs(WeekList(ms))

InitHonesty == InitList(GapRecords, MaxHonestyEntries)

InitWeek ==
    \E k \in 0..MaxWeekDays : \E ms \in [1..k -> WeekMinutes] : InputIs(WeekList(ms))

InitMirror == InitList(MirrorRecords, MaxMirrorEntries)

InitCompare == InitList(CompareRecords, MaxCompareEntries)

\* A record on the day of the record before it or on the day after it: the
\* days are first seen in date order.
TrendList(ms, later) ==
    [i \in 1..Len(ms) |-> Plain(ms[i], Cardinality({j \in 2..i : later[j]}))]

InitTrend ==
    \E k \in 0..MaxTrendEntries :
        \E ms \in [1..k -> TrendMinutes], later \in [1..k -> BOOLEAN] :
            InputIs(WithApps(TrendList(ms, later)))

\* Records of any of four days: the lists are in any date order, as the
\* rows of a query without ordering, or ordered by date descending, are.
InitStats == InitList(StatsRecords, MaxStatsEntries)

\* Records of any app, each on the first day the app has no record of.
AppList(as, ms) ==
    [i \in 1..Len(as) |->
        Record(as[i], ms[i], Cardinality({j \in 1..(i - 1) : as[j] = as[i]}), <<>>, "", "null")]

InitApps ==
    \E k \in 0..MaxAppEntries :
        \E as \in [1..k -> AppSet], ms \in [1..k -> AppMinutes] : InputIs(AppList(as, ms))

InitSeries == InitList(SeriesRecords, MaxSeriesEntries)

InitDefaults == InitList(DefaultRecords, MaxDefaultEntries)

\* Records of two days, some with a minutesSpent that is NaN: the number
\* parseFloat(log.minutesSpent) of the controllers' conversion hands on for
\* a value that is not numeric.
MalformedRecords == {Plain(m, d) : m \in MalformedMinutes, d \in {0, 1}}

InitMalformed == InitList(MalformedRecords, MaxMalformedEntries)

\* ---------------------------------------------------------------------
\* The usage_logs table and the /api/usage request handlers.
\* A stored row is [id, userId, appName, minutesSpent, date, intention,
\* foundIt, createdAt], createdAt being the reading of the server's clock
\* at which the row was created; a request body has appName, minutesSpent,
\* date, intention and foundIt, each of which may be left out: appName "",
\* intention and foundIt "undefined", minutesSpent and date Undefined. A
\* stored null is intention "" and foundIt "null".
\* ---------------------------------------------------------------------
Users == {1, 2}

\* The calendar day of the server's clock, a Tuesday.
today == 8

MaxLogs == 2

MaxPending == 2

\* String.prototype.trim on the names and intentions that are sent padded.
Trim(s) ==
    CASE s = " Instagram " -> "Instagram"
      [] s = " relax "     -> "relax"
      [] OTHER             -> s

\* Boolean(value) of true, false and null.
Boolean(v) == IF v = "true" THEN "true" ELSE "false"

\* new Date(date).toISOString().split('T')[0] of a 'YYYY-MM-DD' string is
\* that day; without a date it is the server's day.
LogDate(date) == IF date # Undefined THEN date ELSE today

Body(appName, minutesSpent, date, intention, foundIt) ==
    [appName |-> appName, minutesSpent |-> minutesSpent, date |-> date,
     intention |-> intention, foundIt |-> foundIt]

NoBody == Body("", Undefined, Undefined, "undefined", "undefined")

Request(fn, userId, id, body) ==
    [fn |-> fn, userId |-> userId, id |-> id, body |-> body]

Response(status, message, logs) ==
    [status |-> status, message |-> message, logs |-> logs]

\* What the error middleware answers for an error a handler does not catch.
ErrorStatuses == {400, 500}

\* The validators of the model's attributes, run before every write.
Validates(row) ==
    /\ row.appName # ""
    /\ row.minutesSpent # NaN
    /\ row.minutesSpent >= 0
    /\ row.minutesSpent <= 1440

\* A table that was created without the unique index.
InsertWithoutUniqueIndex(rows, row) == FALSE

\* The index unique_user_app_date: a write that would give two rows the same
\* user_id, app_name and date fails with SequelizeUniqueConstraintError.
UniqueViolation(rows, row) ==
    \E r \in rows :
        /\ r.id # row.id
        /\ r.userId = row.userId
        /\ r.appName = row.appName
        /\ r.date = row.date

\* A lookup by id alone.
FindByIdOnly(id, userId) == {r \in usageLogs : r.id = id}

\* findOne({where: {id, userId}}).
FindByIdAndUser(id, userId) == {r \in usageLogs : r.id = id /\ r.userId = userId}

Answer(req, status, message, logs) ==
    /\ call' = req
    /\ result' = Response(status, message, logs)

\* An error that reaches the error middleware.
Fail(req, message) == \E status \in ErrorStatuses : Answer(req, status, message, <<>>)

\* A request at an await: the instance or the rows it holds, the attributes
\* it changed or the queries that were served, and the step it resumes
\* with. Several requests, also equal ones, can be there together.
Awaited(req, row, changed, step) ==
    [req |-> req, row |-> row, changed |-> changed, step |-> step]

Await(req, row, changed, step) ==
    /\ BagCardinality(pending) < MaxPending
    /\ pending' = pending (+) SetToBag({Awaited(req, row, changed, step)})
    /\ UNCHANGED <<call, result>>

Awaiting == BagToSet(pending)

Resume(p) == pending' = pending (-) SetToBag({p})

\* The request p goes on to its next await.
AwaitNext(p, row, changed, step) ==
    /\ pending' = (pending (-) SetToBag({p}))
                      (+) SetToBag({Awaited(p.req, row, changed, step)})
    /\ UNCHANGED <<call, result>>

\* The reading of the server's clock at which the newest row was created.
Latest ==
    IF usageLogs = {} THEN 0
    ELSE CHOOSE t \in {r.createdAt : r \in usageLogs} :
            \A r \in usageLogs : r.createdAt <= t

\* POST /api/usage up to its existence check.
CreateCheck(u, b) ==
    LET req == Request("createUsageLog", u, 0, b)
        logDate == LogDate(b.date)
        existing == {r \in usageLogs :
                        r.userId = u /\ r.appName = Trim(b.appName) /\ r.date = logDate}
        row == [id |-> 0, userId |-> u, appName |-> Trim(b.appName),
                minutesSpent |-> parseFloat(b.minutesSpent), date |-> logDate,
                intention |-> IF b.intention \in {"undefined", ""} THEN ""
                              ELSE Trim(b.intention),
                foundIt |-> IF b.foundIt # "undefined" THEN Boolean(b.foundIt)
                            ELSE "null",
                createdAt |-> 0]
    IN  /\ UNCHANGED <<entries, usageLogs, nextId, earlier>>
        /\ IF b.appName = "" \/ b.minutesSpent \in {Undefined, 0, NaN}
           THEN /\ Answer(req, 400, "App name and minutes spent are required", <<>>)
                /\ UNCHANGED pending
           ELSE IF existing # {}
           THEN /\ Answer(req, 400, "Usage entry for " \o b.appName
                    \o " already exists for this date. You can update it instead.", <<>>)
                /\ UNCHANGED pending
           ELSE Await(req, row, {}, "create")

\* UsageLog.create, at the clock reading now, and the answer of POST
\* /api/usage.
CreateInsert(p, now) ==
    LET row == [p.row EXCEPT !.id = nextId, !.createdAt = now]
    IN  /\ p.req.fn = "createUsageLog"
        /\ Resume(p)
        /\ UNCHANGED <<entries, earlier>>
        /\ IF ~Validates(row)
           THEN /\ Fail(p.req, "SequelizeValidationError")
                /\ UNCHANGED <<usageLogs, nextId>>
           ELSE IF UniqueViolation(usageLogs, row)
           THEN /\ Answer(p.req, 400, "A usage entry for this app and date already exists", <<>>)
                /\ UNCHANGED <<usageLogs, nextId>>
           ELSE /\ usageLogs' = usageLogs \cup {row}
                /\ nextId' = nextId + 1
                /\ Answer(p.req, 201, "Usage log created successfully", <<row>>)

\* PUT /api/usage/:id up to its lookup of the log, the first findOne.
UpdateFind(u, id, b) ==
    LET req == Request("updateUsageLog", u, id, b)
        found == FindByIdAndUser(id, u)
    IN  /\ UNCHANGED <<entries, usageLogs, nextId, earlier>>
        /\ IF found = {}
           THEN /\ Answer(req, 404, "Usage log not found", <<>>)
                /\ UNCHANGED pending
           ELSE Await(req, CHOOSE r \in found : TRUE, {}, "check")

\* PUT /api/usage/:id from the log it has found to its save: the duplicate
\* check, with the second findOne on the table as it is by then, and the
\* assignments to the instance. usageLog.date is a Date object or a
\* 'YYYY-MM-DD' string, as the installed Sequelize returns DATEONLY columns;
\* on a string, toISOString is a TypeError.
UpdateCheck(p, dateIsString) ==
    LET usageLog == p.row
        b == p.req.body
        appChanged == b.appName # "" /\ b.appName # usageLog.appName
        dateChanged == b.date # Undefined /\ b.date # usageLog.date
        readsDate == \/ ~appChanged /\ b.date # Undefined
                     \/ (appChanged \/ dateChanged) /\ b.date = Undefined
        logDate == IF b.date # Undefined THEN b.date ELSE usageLog.date
        appName == IF b.appName # "" THEN b.appName ELSE usageLog.appName
        existing == {r \in usageLogs :
                        /\ r.userId = p.req.userId
                        /\ r.appName = appName
                        /\ r.date = logDate
                        /\ r.id # p.req.id}
        updated == [usageLog EXCEPT
            !.appName = appName,
            !.minutesSpent = IF b.minutesSpent # Undefined
                             THEN parseFloat(b.minutesSpent) ELSE @,
            !.date = logDate,
            !.intention = IF b.intention = "undefined" THEN @ ELSE Trim(b.intention),
            !.foundIt = IF b.foundIt = "undefined" THEN @
                        ELSE IF b.foundIt # "null" THEN Boolean(b.foundIt)
                        ELSE "null"]
        changed == {f \in {"appName", "date", "intention", "foundIt"} :
                        updated[f] # usageLog[f]}
                   \cup (IF b.minutesSpent # Undefined THEN {"minutesSpent"} ELSE {})
    IN  /\ p.req.fn = "updateUsageLog"
        /\ p.step = "check"
        /\ UNCHANGED <<entries, usageLogs, nextId, earlier>>
        /\ IF dateIsString /\ readsDate
           THEN /\ Fail(p.req, "TypeError")
                /\ Resume(p)
           ELSE IF (appChanged \/ dateChanged) /\ existing # {}
           THEN /\ Answer(p.req, 400, "A usage entry for this app and date already exists", <<>>)
                /\ Resume(p)
           ELSE AwaitNext(p, updated, changed, "save")

\* usageLog.save and the answer of PUT /api/usage/:id: the changed columns
\* of the row of that id are written.
UpdateSave(p) ==
    LET current == {r \in usageLogs : r.id = p.row.id}
        Written(r) == [r EXCEPT
            !.appName = IF "appName" \in p.changed THEN p.row.appName ELSE @,
            !.minutesSpent = IF "minutesSpent" \in p.changed THEN p.row.minutesSpent ELSE @,
            !.date = IF "date" \in p.changed THEN p.row.date ELSE @,
            !.intention = IF "intention" \in p.changed THEN p.row.intention ELSE @,
            !.foundIt = IF "foundIt" \in p.changed THEN p.row.foundIt ELSE @]
    IN  /\ p.req.fn = "updateUsageLog"
        /\ p.step = "save"
        /\ Resume(p)
        /\ UNCHANGED <<entries, nextId, earlier>>
        /\ IF ~Validates(p.row)
           THEN /\ Fail(p.req, "SequelizeValidationError")
                /\ UNCHANGED usageLogs
           ELSE IF p.changed = {} \/ current = {}
           THEN /\ Answer(p.req, 200, "Usage log updated successfully", <<p.row>>)
                /\ UNCHANGED usageLogs
           ELSE LET r == CHOOSE c \in current : TRUE
                IN  IF UniqueViolation(usageLogs, Written(r))
                    THEN /\ Fail(p.req, "SequelizeUniqueConstraintError")
                         /\ UNCHANGED usageLogs
                    ELSE /\ usageLogs' = (usageLogs \ {r}) \cup {Written(r)}
                         /\ Answer(p.req, 200, "Usage log updated successfully", <<p.row>>)

\* DELETE /api/usage/:id up to its lookup.
DeleteCheck(u, id) ==
    LET req == Request("deleteUsageLog", u, id, NoBody)
        found == FindByIdAndUser(id, u)
    IN  /\ UNCHANGED <<entries, usageLogs, nextId, earlier>>
        /\ IF found = {}
           THEN /\ Answer(req, 404, "Usage log not found", <<>>)
                /\ UNCHANGED pending
           ELSE Await(req, CHOOSE r \in found : TRUE, {}, "destroy")

\* usageLog.destroy and the answer of DELETE /api/usage/:id.
DeleteDestroy(p) ==
    /\ p.req.fn = "deleteUsageLog"
    /\ Resume(p)
    /\ UNCHANGED <<entries, nextId, earlier>>
    /\ usageLogs' = {r \in usageLogs : r.id # p.row.id}
    /\ Answer(p.req, 200, "Usage log deleted successfully", <<>>)

\* GET /api/usage/:id.
GetUsageLogById(u, id) ==
    LET req == Request("getUsageLogById", u, id, NoBody)
        found == FindByIdAndUser(id, u)
    IN  /\ UNCHANGED <<entries, storeVars, earlier>>
        /\ IF found = {}
           THEN Answer(req, 404, "Usage log not found", <<>>)
           ELSE Answer(req, 200, "", <<CHOOSE r \in found : TRUE>>)

\* ORDER BY date DESC, createdAt DESC: the orders the rows can be returned
\* in, the later date first and of one date the later created first; rows
\* of one date that were created at the same clock reading come in either
\* order.
OrderedRows(rows) ==
    {logs \in [1..Cardinality(rows) -> rows] :
        \A i, j \in 1..Cardinality(rows) :
            i < j =>
                /\ logs[i] # logs[j]
                /\ \/ logs[i].date > logs[j].date
                   \/ /\ logs[i].date = logs[j].date
                      /\ logs[i].createdAt >= logs[j].createdAt}

\* app_name LIKE '%pattern%' on the patterns that are sent.
Like(name, pattern) ==
    \/ name = pattern
    \/ pattern = "Insta" /\ name = "Instagram"

Query(startDate, endDate, appName, limit) ==
    [startDate |-> startDate, endDate |-> endDate, appName |-> appName, limit |-> limit]

\* GET /api/usage.
GetUsageLogs(u, q) ==
    LET req == [Request("getUsageLogs", u, 0, NoBody) EXCEPT !.body = q]
        where == {r \in usageLogs :
                    /\ r.userId = u
                    /\ q.startDate # Undefined => r.date >= q.startDate
                    /\ q.endDate # Undefined => r.date <= q.endDate
                    /\ q.appName # "" => Like(r.appName, q.appName)}
        limit == IF q.limit = Undefined THEN 100 ELSE q.limit
    IN  /\ UNCHANGED <<entries, storeVars, earlier>>
        /\ \E logs \in OrderedRows(where) :
            Answer(req, 200, "", SubSeq(logs, 1, Min(limit, Len(logs))))

\* The requests that are made, by the users and with the bodies of a
\* specification, on the ids the table has issued.
LogIds == 1..MaxLogs

CreateRequest(users, bodies) ==
    /\ nextId <= MaxLogs
    /\ \E u \in users, b \in bodies : CreateCheck(u, b)

\* The row is created at a later clock reading than every row in the table.
CreateWrite == \E p \in Awaiting : CreateInsert(p, Latest + 1)

\* The row is created at the clock reading of the newest row of the table:
\* the clock has not ticked since.
CreateWriteAtOnce == \E p \in Awaiting : CreateInsert(p, Max(1, Latest))

UpdateRequest(users, bodies) ==
    \E u \in users, id \in LogIds, b \in bodies : UpdateFind(u, id, b)

UpdateDuplicateCheck == \E p \in Awaiting, dateIsString \in BOOLEAN : UpdateCheck(p, dateIsString)

UpdateWrite == \E p \in Awaiting : UpdateSave(p)

DeleteRequest(users) == \E u \in users, id \in LogIds : DeleteCheck(u, id)

DeleteWrite == \E p \in Awaiting : DeleteDestroy(p)

GetByIdRequest(users) == \E u \in users, id \in LogIds : GetUsageLogById(u, id)

GetLogsRequest(users, queries) == \E u \in users, q \in queries : GetUsageLogs(u, q)

\* One user's requests on one app, created on the server's day and moved
\* between that day and the day before, any of them between its reads and
\* its write.
StoreUsers == {1}

StoreCreateBodies == {Body("Instagram", 30, Undefined, "undefined", "undefined")}

StoreUpdateBodies == {Body("", Undefined, d, "undefined", "undefined") : d \in {today - 1, today}}

NextStore ==
    \/ CreateRequest(StoreUsers, StoreCreateBodies) \/ CreateWrite
    \/ UpdateRequest(StoreUsers, StoreUpdateBodies) \/ UpdateDuplicateCheck \/ UpdateWrite
    \/ DeleteRequest(StoreUsers) \/ DeleteWrite
SpecStore == Init /\ [][NextStore]_vars

\* The entry form of one user, a request at a time: the app name is sent
\* padded or empty, the minutes are left out, zero, within the day, the most
\* a day has, or more, and foundIt is Yes, No, 'Not sure' or left out; an
\* entry is then edited in its minutes and its foundIt.
FormUsers == {1}

FormMinutes == {Undefined, 0, 30, 1440, 1441}

FormFoundIt == {"true", "false", "null", "undefined"}

FormCreateBodies ==
    {Body(a, m, Undefined, " relax ", f) :
        a \in {" Instagram ", ""}, m \in FormMinutes, f \in FormFoundIt}

FormUpdateBodies ==
    {Body("", m, Undefined, "undefined", f) : m \in {Undefined, 0}, f \in FormFoundIt}

NextForm ==
    \/ pending = EmptyBag /\ CreateRequest(FormUsers, FormCreateBodies)
    \/ CreateWrite
    \/ pending = EmptyBag /\ UpdateRequest(FormUsers, FormUpdateBodies)
    \/ UpdateDuplicateCheck
    \/ UpdateWrite
    \/ pending = EmptyBag /\ DeleteRequest(FormUsers)
    \/ DeleteWrite
SpecForm == Init /\ [][NextForm]_vars

\* ---------------------------------------------------------------------
\* The analytics requests (analyticsController.js) on the table.
\* ---------------------------------------------------------------------
\* toISOString().split('T')[0] of the Date of local midnight of localDay:
\* east of Greenwich local midnight is the evening before in UTC.
ISODayOfLocalMidnight(localDay, utcOffset) ==
    IF utcOffset > 0 THEN localDay - 1 ELSE localDay

\* The rows of a findAll without order, as the index that serves the query
\* yields them: by date with idx_user_date, by id with the primary key.
RECURSIVE RowsInIndexOrder(_, _)
RowsInIndexOrder(rows, byDate) ==
    IF rows = {} THEN <<>>
    ELSE LET first == CHOOSE r \in rows : \A s \in rows :
                          IF byDate
                          THEN r.date < s.date \/ (r.date = s.date /\ r.id <= s.id)
                          ELSE r.id <= s.id
         IN <<first>> \o RowsInIndexOrder(rows \ {first}, byDate)

convertToPlain(logs) ==
    [i \in 1..Len(logs) |->
        [appName |-> logs[i].appName,
         minutesSpent |-> parseFloat(logs[i].minutesSpent),
         date |-> logs[i].date]]

\* findAll({where: {userId, date: {[Op.gte]: from}}}), made plain.
LogsSince(u, from, byDate) ==
    convertToPlain(RowsInIndexOrder({r \in usageLogs : r.userId = u /\ r.date >= from}, byDate))

\* The queries of the Promise.all of getDashboard whose rows the handler
\* reads, and the local day each starts from. The rows of the fourth query,
\* allRecentLogs, are not read by the handler.
DashboardQueries == {"todayLogs", "weeklyLogs", "monthlyLogs"}

DashboardSince(query) ==
    CASE query = "todayLogs" -> today
      [] query = "weeklyLogs" -> today - 7
      [] query = "monthlyLogs" -> today - 30

\* GET /api/analytics/dashboard, at noon of the server's day, up to its
\* Promise.all: the queries are sent and none is served yet.
GetDashboard(u, utcOffset, byDate) ==
    /\ Await([fn |-> "getDashboard", userId |-> u, utcOffset |-> utcOffset,
              byDate |-> byDate],
             [todayLogs |-> <<>>, weeklyLogs |-> <<>>, monthlyLogs |-> <<>>],
             {}, "findAll")
    /\ UNCHANGED <<entries, usageLogs, nextId, earlier>>

\* The answer of GET /api/analytics/dashboard from the rows of its queries.
\* The recommendations and the motivational message are left out.
DashboardAnswer(req, logs) ==
    LET weeklyStats == calculateWeeklyStats(logs.weeklyLogs)
    IN  /\ call' = req
        /\ result' =
            [status |-> 200,
             daily |-> calculateDailyStats(logs.todayLogs),
             weekly |-> weeklyStats,
             monthly |-> calculateMonthlyStats(logs.monthlyLogs),
             riskScore |-> calculateRiskScore(logs.weeklyLogs),
             topApps |-> [i \in 1..Min(5, Len(weeklyStats.apps)) |->
                            [name |-> weeklyStats.apps[i].name,
                             minutes |-> weeklyStats.apps[i].minutes]],
             charts |-> [daily |-> getTimeSeriesData(logs.weeklyLogs, "daily", req.utcOffset),
                         weekly |-> getTimeSeriesData(logs.monthlyLogs, "weekly", req.utcOffset)]]

\* One query of the Promise.all is served from the table as it is; the
\* queries are served in any order, and when the last one has been served
\* the handler answers.
DashboardFindAll(p, query) ==
    LET from == ISODayOfLocalMidnight(DashboardSince(query), p.req.utcOffset)
        logs == [p.row EXCEPT ![query] = LogsSince(p.req.userId, from, p.req.byDate)]
        served == p.changed \cup {query}
    IN  /\ p.req.fn = "getDashboard"
        /\ query \notin p.changed
        /\ UNCHANGED <<entries, usageLogs, nextId, earlier>>
        /\ IF served = DashboardQueries
           THEN /\ Resume(p)
                /\ DashboardAnswer(p.req, logs)
           ELSE AwaitNext(p, logs, served, "findAll")

\* GET /api/analytics/risk-score. Its Promise.all sends two queries, and
\* calculateRiskScore reads the rows of the first, weeklyLogs, only.
GetRiskScore(u, utcOffset, byDate) ==
    LET sevenDaysAgoStr == ISODayOfLocalMidnight(today - 7, utcOffset)
        weeklyLogs == LogsSince(u, sevenDaysAgoStr, byDate)
    IN  /\ call' = [fn |-> "getRiskScore", userId |-> u, utcOffset |-> utcOffset,
                    byDate |-> byDate]
        /\ result' = [status |-> 200, riskScore |-> calculateRiskScore(weeklyLogs)]
        /\ UNCHANGED <<entries, storeVars, earlier>>

\* One user logs one app day after day, from 8 days before the server's
\* day on, each log at a later clock reading, and opens the dashboard or
\* asks for the risk score after a log; logs are made while the queries of
\* the dashboard are being served.
MaxDays == 9

DashboardMinutes == {30}

DashboardTimeZones == {-5, 0, 2}

LogDay ==
    /\ \A p \in Awaiting : p.req.fn # "createUsageLog"
    /\ nextId <= MaxDays
    /\ \E m \in DashboardMinutes :
        CreateCheck(1, Body("Instagram", m, today - 9 + nextId, "undefined", "undefined"))

DashboardRequest ==
    /\ pending = EmptyBag
    /\ call.fn \in {"none", "createUsageLog"}
    /\ \E utcOffset \in DashboardTimeZones, byDate \in BOOLEAN : GetDashboard(1, utcOffset, byDate)

DashboardRead == \E p \in Awaiting, query \in DashboardQueries : DashboardFindAll(p, query)

RiskScoreRequest ==
    /\ pending = EmptyBag
    /\ call.fn \in {"none", "createUsageLog"}
    /\ \E utcOffset \in DashboardTimeZones, byDate \in BOOLEAN : GetRiskScore(1, utcOffset, byDate)

NextDashboard == LogDay \/ CreateWrite \/ DashboardRequest \/ DashboardRead \/ RiskScoreRequest
SpecDashboard == Init /\ [][NextDashboard]_vars

\* Two users, a request at a time: each logs Instagram on the server's day,
\* in the same reading of the clock as the log before or in a later one,
\* edits and deletes by id, their own ids and the other's, and reads.
IsolationCreateBodies == {Body("Instagram", 30, Undefined, "undefined", "undefined")}

IsolationUpdateBodies ==
    {Body("", 60, Undefined, "undefined", "undefined"),
     Body("YouTube", Undefined, today, "undefined", "undefined")}

IsolationQueries ==
    {Query(Undefined, Undefined, "", Undefined), Query(today, today, "Insta", 1)}

NextIsolation ==
    \/ pending = EmptyBag /\ CreateRequest(Users, IsolationCreateBodies)
    \/ CreateWrite
    \/ CreateWriteAtOnce
    \/ pending = EmptyBag /\ UpdateRequest(Users, IsolationUpdateBodies)
    \/ UpdateDuplicateCheck
    \/ UpdateWrite
    \/ pending = EmptyBag /\ DeleteRequest(Users)
    \/ DeleteWrite
    \/ pending = EmptyBag /\ GetByIdRequest(Users)
    \/ pending = EmptyBag /\ GetLogsRequest(Users, IsolationQueries)
SpecIsolation == Init /\ [][NextIsolation]_vars

\* The regret list on analyses and statistics around the thresholds of its
\* items; the analysis is that of data, and the statistics are any of
\* ListStats or those of data, as the page passes them.  One call, as the
\* result of a call does not depend on the calls before it.
ListData ==
    [entries : {<<>>},
     dailyAvg : {0, 18000},
     lateNightFrequency : {0, 30},
     intentDriftFrequency : {0, 40},
     riskScoreTrend : {"increasing", "stable"},
     honestyScore : {100}]

ListStats ==
    [dailyAvg : {18000, 18001},
     lateNightFrequency : {30, 31},
     intentDriftFrequency : {40, 41},
     repeatedOpens : {5, 6}]

RegretList ==
    /\ entries = <<>>
    /\ call = NoCall
    /\ \E data \in RegretData :
        \E stats \in (IF data \in ListData THEN ListStats ELSE {}) \cup {ListStatsOf(data)} :
            LET analysis == analyzeRegretPatterns(data)
            IN /\ call' = [fn |-> "generateRegretList", data |-> data,
                           analysis |-> analysis, stats |-> stats]
               /\ result' = [regretList |-> generateRegretList(analysis, stats)]
               /\ UNCHANGED <<entries, storeVars, earlier>>

\* The logs the page has fetched, of two days 20 days apart: entered at
\* noon or late at night without an intention, or at noon with an intention
\* that was met or was not.
SimulatorRecords ==
    {Record("Instagram", 30, d, <<s[1]>>, s[2], s[3]) :
        d \in {0, 20},
        s \in {<<12, "", "null">>, <<23, "", "null">>,
                <<12, "relax", "true">>, <<12, "relax", "false">>}}

\* The dashboard the page has fetched, or none yet.
SimulatorDashboards ==
    {Null} \cup
    {[weekly |-> [averageDailyMinutes |-> a, trend |-> t], riskScore |-> [score |-> r]] :
        a \in {0, 18000, 24000}, t \in {"increasing", "stable"}, r \in {60, 61}}

InitSimulator == InitList(SimulatorRecords, MaxSimulatorEntries)

RegretSimulation ==
    \E dashboardData \in SimulatorDashboards :
        /\ call' = [fn |-> "FutureRegretSimulator", dashboardData |-> dashboardData]
        /\ result' = FutureRegretSimulator(entries, dashboardData)
        /\ UNCHANGED <<entries, storeVars, earlier>>

NextRegretList == RegretList \/ RegretSimulation
SpecRegretList == InitSimulator /\ [][NextRegretList]_vars

\* Every component on one list, in any order of calls and as often as the
\* caller likes: records of two apps on two days, in any date order, no
\* two of one app and day. At any time the caller may hold on to the call
\* it has just made and to its result.
CallRecords == {Record(a, 30, d, <<>>, "", "null") : a \in {"Instagram", "YouTube"}, d \in {0, 10}}

InitCalls ==
    \E k \in 0..MaxCallEntries : \E rs \in [1..k -> CallRecords] :
        /\ \A i, j \in 1..k : i # j => rs[i].appName # rs[j].appName \/ rs[i].date # rs[j].date
        /\ InputIs(rs)

Hold ==
    /\ call # NoCall
    /\ earlier' = <<earlier[2], Held(call, result)>>
    /\ UNCHANGED <<entries, call, result, storeVars>>

NextCalls ==
    \/ DailyStats \/ WeeklyStats \/ MonthlyStats \/ RiskScore \/ TimeSeries
    \/ HonestyScore \/ MirrorAnalysis \/ BeforeAfter \/ Hold
SpecCalls == InitCalls /\ [][NextCalls]_vars

\* The three scores on lists of records in any order.
Next == RiskScore \/ HonestyScore \/ RegretAnalysis
Spec == InitScores /\ [][Next]_vars

\* The honesty score on lists of records in any order.
NextHonesty == HonestyScore
SpecHonesty == InitHonesty /\ [][NextHonesty]_vars

\* The risk score on the days of a week.
NextWeek == RiskScore
SpecWeek == InitWeek /\ [][NextWeek]_vars

\* The regret analysis alone.
NextRegret == RegretAnalysis
SpecRegret == Init /\ [][NextRegret]_vars

\* The mirror patterns on lists of records in any order.
NextMirror == MirrorAnalysis
SpecMirror == InitMirror /\ [][NextMirror]_vars

\* The before/after comparison on lists of records in any order.
NextCompare == BeforeAfter
SpecCompare == InitCompare /\ [][NextCompare]_vars

\* The weekly statistics on days first seen in date order.
NextTrend == WeeklyStats
SpecTrend == InitTrend /\ [][NextTrend]_vars

\* The statistics on lists of records in any date order.
NextStats == WeeklyStats \/ MonthlyStats
SpecStats == InitStats /\ [][NextStats]_vars

\* The app breakdown of the daily and weekly statistics.
NextApps == DailyStats \/ WeeklyStats
SpecApps == InitApps /\ [][NextApps]_vars

\* The time series on lists of records in any date order.
NextSeries == TimeSeries
SpecSeries == InitSeries /\ [][NextSeries]_vars

\* Every component on no collection, on the empty one and on short ones.
NextDefaults ==
    \/ CallOnAbsent
    \/ DailyStats \/ WeeklyStats \/ MonthlyStats \/ RiskScore \/ TimeSeries
    \/ HonestyScore \/ MirrorAnalysis \/ BeforeAfter
SpecDefaults == InitDefaults /\ [][NextDefaults]_vars

\* The daily statistics and the honesty score on records with malformed minutes.
NextMalformed ==
    \/ DailyStats
    \/ WeeklyStats
    \/ MonthlyStats
    \/ RiskScore
    \/ HonestyScore
SpecMalformed == InitMalformed /\ [][NextMalformed]_vars

(***************************************************************************)
(* Properties.  The definitions below restate the specification on the     *)
(* input of the call (entries, call) without the operators of the model    *)
(* that compute the result.                                                *)
(***************************************************************************)
Idx == 1..Len(entries)
DateSet == {entries[i].date : i \in Idx}

RECURSIVE SetSum(_, _)
SetSum(F(_), S) ==
    IF S = {} THEN 0
    ELSE LET x == CHOOSE x \in S : TRUE IN F(x) + SetSum(F, S \ {x})

SetMax(S) == CHOOSE x \in S : \A y \in S : y <= x
SetMin(S) == CHOOSE x \in S : \A y \in S : x <= y

Clamp100(x) == IF x < 0 THEN 0 ELSE IF x > 100 THEN 100 ELSE x

\* The entry at position r of the date-sorted list: entries are ordered by
\* date, entries of one date by their position in the input.
SortedAt(r) ==
    LET Before(j, i) ==
            \/ entries[j].date < entries[i].date
            \/ entries[j].date = entries[i].date /\ j < i
        Rank(i) == 1 + Cardinality({j \in Idx : Before(j, i)})
    IN entries[CHOOSE i \in Idx : Rank(i) = r]

\* G: every gap of more than 7 days between neighbouring dates costs
\* min(30, (g - 7) * 5).
ClaimedGapPenalty ==
    LET Cost(d) ==
            IF d = SetMin(DateSet) THEN 0
            ELSE LET g == d - SetMax({p \in DateSet : p < d})
                 IN IF g > 7 THEN (IF (g - 7) * 5 < 30 THEN (g - 7) * 5 ELSE 30) ELSE 0
    IN SetSum(Cost, DateSet)

\* U: the number of records of more than 960 minutes.
ClaimedUnrealistic == Cardinality({i \in Idx : entries[i].minutesSpent > 960})

\* Spikes as the specification states them: no condition on the records before.
StatedSpikes ==
    IF Len(entries) >= 4
    THEN Cardinality({r \in 4..Len(entries) :
            \* 3 times the mean of 3 records is their sum
            SortedAt(r).minutesSpent >
              SortedAt(r - 3).minutesSpent + SortedAt(r - 2).minutesSpent
                + SortedAt(r - 1).minutesSpent})
    ELSE Cardinality({r \in 2..Len(entries) :
            SortedAt(r).minutesSpent > 5 * SortedAt(r - 1).minutesSpent})

\* Spikes as the code counts them: only against records that are not all 0.
GuardedSpikes ==
    IF Len(entries) >= 4
    THEN Cardinality({r \in 4..Len(entries) :
            LET sum3 == SortedAt(r - 3).minutesSpent + SortedAt(r - 2).minutesSpent
                          + SortedAt(r - 1).minutesSpent
            IN sum3 > 0 /\ SortedAt(r).minutesSpent > sum3})
    ELSE Cardinality({r \in 2..Len(entries) :
            /\ SortedAt(r - 1).minutesSpent > 0
            /\ SortedAt(r).minutesSpent > 5 * SortedAt(r - 1).minutesSpent})

IsCall(fn) == call.fn = fn

\* C1: the risk score, the digital honesty score and the regret score are
\* integers between 0 and 100 for every input.
C1_ScoresInRange ==
    /\ IsCall("calculateRiskScore") => result.score \in 0..100
    /\ IsCall("calculateDigitalHonestyScore") => result \in 0..100
    /\ IsCall("analyzeRegretPatterns") => result.regretScore \in 0..100

\* C1 witness: eight or more days of use, each of 360 minutes or more and
\* the later half heavier than the earlier: the four factors add up to
\* 40 + 20 + 20 * days / 7 + 20 points, more than 100, and the score is 100.
C1_Witness ==
    /\ IsCall("calculateRiskScore")
    /\ Cardinality(DateSet) >= 8
    /\ \A i \in Idx : entries[i].minutesSpent >= 360
    /\ calculateWeeklyStats(entries).trend = "increasing"
    /\ (40 + 20 + 20) * 7 + 20 * Cardinality(DateSet) > 100 * 7
    /\ result.score = 100

\* The four factors of the risk score as the specification tables them, in
\* 1 / Q points; v is in hundredths of a minute.
StatedAvgFactor(v) ==
    IF v >= 360 * 100 THEN 40 * Q
    ELSE IF v >= 240 * 100 THEN 30 * Q + ((v - 240 * 100) * 5 * Q) \div (120 * 100)
    ELSE IF v >= 120 * 100 THEN 20 * Q + ((v - 120 * 100) * 10 * Q) \div (120 * 100)
    ELSE IF v >= 60 * 100 THEN 10 * Q + ((v - 60 * 100) * 10 * Q) \div (60 * 100)
    ELSE (v * 10 * Q) \div (60 * 100)

StatedPeakFactor(v) ==
    IF v >= 360 THEN 20 * Q
    ELSE IF v >= 240 THEN 15 * Q + ((v - 240) * 5 * Q) \div 120
    ELSE IF v >= 120 THEN 10 * Q + ((v - 120) * 5 * Q) \div 120
    ELSE (v * 5 * Q) \div 120

StatedTrendFactor(t) ==
    CASE t = "increasing" -> 20 * Q
      [] t = "stable" -> 10 * Q
      [] t = "decreasing" -> 5 * Q

LargestDailyTotal ==
    LET On(d) == LET M(i) == IF entries[i].date = d THEN entries[i].minutesSpent ELSE 0
                 IN SumRange(M, 1, Len(entries))
    IN SetMax({On(d) : d \in DateSet})

StatedRiskSum ==
    LET stats == calculateWeeklyStats(entries)
    IN StatedAvgFactor(stats.averageDailyMinutes) + StatedPeakFactor(LargestDailyTotal)
         + (Cardinality(DateSet) * 20 * Q) \div 7 + StatedTrendFactor(stats.trend)

SevenDaysOfSixty == [i \in 1..7 |-> Plain(60, i - 1)]

\* C2: for a non-empty weekly record set the score is the sum of the four
\* tabled factors, rounded to the nearest integer (halves up) and clamped to
\* [0,100]; 7 days of 60 minutes give 43 and 'Moderate'.
C2_RiskScoreFormula ==
    IsCall("calculateRiskScore") /\ Len(entries) > 0 =>
        /\ LET raw == StatedRiskSum
           IN \E r \in (raw \div Q)..(raw \div Q + 1) :
                 /\ 2 * raw - Q < 2 * Q * r
                 /\ 2 * Q * r <= 2 * raw + Q
                 /\ result.score = Clamp100(r)
        /\ entries = SevenDaysOfSixty =>
              result.score = 43 /\ result.category = "Moderate"

\* C2 witness: the risk score of 7 days of 60 minutes has been computed.
C2_Witness ==
    /\ IsCall("calculateRiskScore")
    /\ entries = SevenDaysOfSixty
    /\ result.score = 43

\* C3: category and level are a function of the score with thresholds 40
\* and 70, and they never disagree.
C3_CategoryByScore ==
    IsCall("calculateRiskScore") =>
        \/ result.score >= 70 /\ result.category = "High" /\ result.level = "high"
        \/ /\ result.score >= 40 /\ result.score <= 69
           /\ result.category = "Moderate" /\ result.level = "moderate"
        \/ result.score <= 39 /\ result.category = "Low" /\ result.level = "low"

\* C3 witness: a score of exactly 70 is reported as High/high.
C3_Witness ==
    /\ IsCall("calculateRiskScore")
    /\ result.score = 70
    /\ result.category = "High"

GapScenario == {Plain(100, 0), Plain(100, 10), Plain(100, 11)}

\* C4: on 2 or more records without a spike the honesty score is
\* 100 - G - 10 * U clamped to [0,100]; 100 minutes on days 0, 10 and 11 give 85.
C4_HonestyGapsAndUnrealistic ==
    IsCall("calculateDigitalHonestyScore") /\ Len(entries) >= 2 =>
        /\ StatedSpikes = 0 =>
              result = Clamp100(100 - ClaimedGapPenalty - 10 * ClaimedUnrealistic)
        /\ Len(entries) = 3 /\ {entries[i] : i \in Idx} = GapScenario =>
              result = 85

\* C4 witness: the scenario, logged out of date order.
C4_Witness ==
    /\ IsCall("calculateDigitalHonestyScore")
    /\ entries = <<Plain(100, 10), Plain(100, 0), Plain(100, 11)>>
    /\ result = 85

\* C5 as stated: every record above 3 times the mean of the 3 before it (4
\* and more records) or above 5 times its predecessor (2 or 3 records) costs
\* 5 points, whatever the records before it are.
C5_SpikesAsStated ==
    IsCall("calculateDigitalHonestyScore") /\ Len(entries) >= 2 =>
        result = Clamp100(100 - ClaimedGapPenalty - 10 * ClaimedUnrealistic
                              - 5 * StatedSpikes)

\* C5 amended: such a record costs 5 points only when the 3 records before
\* it are not all 0 (4 and more records), or its predecessor is not 0 (2 or
\* 3 records).
C5_SpikesGuarded ==
    IsCall("calculateDigitalHonestyScore") /\ Len(entries) >= 2 =>
        result = Clamp100(100 - ClaimedGapPenalty - 10 * ClaimedUnrealistic
                              - 5 * GuardedSpikes)

\* C5 witness: 4 records of one day, the last a spike over the 3 before it,
\* and nothing else to penalise.
C5_Witness ==
    /\ IsCall("calculateDigitalHonestyScore")
    /\ Len(entries) = 4
    /\ GuardedSpikes = 1
    /\ ClaimedGapPenalty = 0
    /\ ClaimedUnrealistic = 0
    /\ result = 95

\* The table of the regret analysis as the specification states it: for each
\* factor the tiers, highest first, each with <<score, attentionDrain,
\* burnout, habitualScrolling>>.
StatedTiers ==
    [dailyAvg |-> << <<240 * 100, <<30, 20, 10, 0>> >>, <<180 * 100, <<20, 15, 5, 0>> >>,
                     <<120 * 100, <<10, 10, 0, 0>> >> >>,
     lateNightFrequency |-> << <<50, <<25, 0, 20, 5>> >>, <<30, <<15, 0, 15, 0>> >>,
                               <<15, <<8, 0, 8, 0>> >> >>,
     intentDriftFrequency |-> << <<60, <<25, 5, 0, 20>> >>, <<40, <<15, 0, 0, 15>> >>,
                                 <<20, <<8, 0, 0, 8>> >> >>]

\* The points of the highest tier that v meets, zeros if it meets none.
StatedTierPoints(tiers, v) ==
    LET met == {i \in 1..Len(tiers) : v >= tiers[i][1]}
    IN IF met = {} THEN <<0, 0, 0, 0>> ELSE tiers[SetMin(met)][2]

StatedRegretParts(data) ==
    <<StatedTierPoints(StatedTiers.dailyAvg, data.dailyAvg),
      StatedTierPoints(StatedTiers.lateNightFrequency, data.lateNightFrequency),
      StatedTierPoints(StatedTiers.intentDriftFrequency, data.intentDriftFrequency),
      CASE data.riskScoreTrend = "increasing" -> <<10, 5, 5, 0>>
        [] data.riskScoreTrend = "stable_high" -> <<5, 0, 0, 5>>
        [] OTHER -> <<0, 0, 0, 0>>,
      CASE data.honestyScore < 60 -> <<10, 0, 0, 5>>
        [] data.honestyScore >= 60 /\ data.honestyScore < 80 -> <<5, 0, 0, 0>>
        [] OTHER -> <<0, 0, 0, 0>> >>

StatedRegretTotal(data, k) ==
    LET parts == StatedRegretParts(data)
    IN parts[1][k] + parts[2][k] + parts[3][k] + parts[4][k] + parts[5][k]

\* C6: each of the five factors adds the points of the single highest tier
\* it meets to regretScore and the tabled amounts to the three accumulators;
\* regretLevel is high from 70, medium from 40 to 69, low below.
C6_RegretTable ==
    IsCall("analyzeRegretPatterns") =>
        /\ result.regretScore = StatedRegretTotal(call.data, 1)
        /\ result.regretTypes.attentionDrain = StatedRegretTotal(call.data, 2)
        /\ result.regretTypes.burnout = StatedRegretTotal(call.data, 3)
        /\ result.regretTypes.habitualScrolling = StatedRegretTotal(call.data, 4)
        /\ result.regretLevel = "high" <=> result.regretScore >= 70
        /\ result.regretLevel = "medium" <=>
              result.regretScore >= 40 /\ result.regretScore < 70
        /\ result.regretLevel \in {"high", "medium", "low"}

\* C6 witness: honestyScore exactly 60 with every other factor in its top
\* tier: 30 + 25 + 25 + 10 + 5 = 95, level high.
C6_Witness ==
    /\ IsCall("analyzeRegretPatterns")
    /\ call.data.dailyAvg >= 240 * 100
    /\ call.data.lateNightFrequency >= 50
    /\ call.data.intentDriftFrequency >= 60
    /\ call.data.riskScoreTrend = "increasing"
    /\ call.data.honestyScore = 60
    /\ result.regretScore = 95
    /\ result.regretLevel = "high"

\* The accumulators of the result that hold the greatest value, as positions
\* in the declared order attentionDrain, burnout, habitualScrolling.
Greatest ==
    LET types == result.regretTypes
    IN {i \in 1..3 : \A j \in 1..3 : types[RegretKeys[j]] <= types[RegretKeys[i]]}

\* C7 as stated: dominantType is the accumulator with the greatest value,
\* the first declared one when several tie.
C7_FirstDeclaredWinsTies ==
    IsCall("analyzeRegretPatterns") =>
        result.dominantType = RegretKeys[SetMin(Greatest)]

\* C7 amended: dominantType is the accumulator with the greatest value, the
\* last declared one when several tie.
C7_LastDeclaredWinsTies ==
    IsCall("analyzeRegretPatterns") =>
        result.dominantType = RegretKeys[SetMax(Greatest)]

\* C7 witness: all three accumulators are 0 and habitualScrolling is returned.
C7_Witness ==
    /\ IsCall("analyzeRegretPatterns")
    /\ \A i \in 1..3 : result.regretTypes[RegretKeys[i]] = 0
    /\ result.dominantType = "habitualScrolling"

\* The records of an intention group: those the filter of analyzeMirrorPatterns
\* keeps (an intention, and a foundIt that is not null), by lowercased intention.
Kept == {i \in Idx : entries[i].intention # "" /\ entries[i].foundIt # "null"}
GroupOf(k, S) == {i \in S : ToLowerCase(entries[i].intention) = k}
GroupKeys(S) == {ToLowerCase(entries[i].intention) : i \in S}
FoundIn(G) == Cardinality({i \in G : entries[i].foundIt = "true"})
MinutesIn(G) == LET M(i) == entries[i].minutesSpent IN SetSum(M, G)
LateIn(G) ==
    Cardinality({i \in G :
        /\ entries[i].createdAt # <<>>
        /\ entries[i].createdAt[1] \in (22..23) \cup (0..5)})

\* The rules in the order the specification gives them.
StatedPattern(G) ==
    LET totalCount == Cardinality(G)
    IN CASE 2 * FoundIn(G) < totalCount /\ totalCount >= 3 -> "not_found"
         [] ~(2 * FoundIn(G) < totalCount /\ totalCount >= 3)
              /\ MinutesIn(G) > 60 * totalCount /\ 10 * FoundIn(G) < 7 * totalCount
              -> "long_session_not_found"
         [] ~(2 * FoundIn(G) < totalCount /\ totalCount >= 3)
              /\ ~(MinutesIn(G) > 60 * totalCount /\ 10 * FoundIn(G) < 7 * totalCount)
              /\ LateIn(G) > 0 /\ 10 * LateIn(G) > 4 * totalCount
              -> "late_night"
         [] OTHER -> "none"

InsightsOf(k) == {j \in 1..Len(result) : result[j].intention = capitalizeFirst(k)}

\* C8: every intention group gets at most one insight, the first rule that
\* matches deciding its pattern, and none when no rule matches; 3 records
\* "relax" with foundIt false give one insight not_found, count 3, rate 0.
C8_FirstMatchPerGroup ==
    IsCall("analyzeMirrorPatterns") =>
        /\ \A k \in GroupKeys(Kept) :
              LET G == GroupOf(k, Kept)
              IN IF StatedPattern(G) = "none" THEN InsightsOf(k) = {}
                 ELSE /\ Cardinality(InsightsOf(k)) = 1
                      /\ \A j \in InsightsOf(k) :
                            /\ result[j].pattern = StatedPattern(G)
                            /\ result[j].count = Cardinality(G)
                            /\ result[j].foundItRate = <<FoundIn(G), Cardinality(G)>>
        /\ \A j \in 1..Len(result) : \E k \in GroupKeys(Kept) : j \in InsightsOf(k)
        /\ (Len(entries) = 3
              /\ \A i \in Idx : entries[i].intention = "relax" /\ entries[i].foundIt = "false")
           => /\ Len(result) = 1
              /\ result[1].pattern = "not_found"
              /\ result[1].count = 3
              /\ result[1].foundItRate[1] = 0

\* C8 witness: 3 long sessions "relax" with foundIt false match the first and
\* the second rule, and are reported as not_found only.
C8_Witness ==
    /\ IsCall("analyzeMirrorPatterns")
    /\ Len(entries) = 3
    /\ \A i \in Idx : /\ entries[i].intention = "relax"
                      /\ entries[i].foundIt = "false"
                      /\ entries[i].minutesSpent = 90
    /\ Len(result) = 1
    /\ result[1].pattern = "not_found"
    /\ result[1].count = 3

\* The records C9 lets count: an intention and a known foundIt.
Known == {i \in Idx : entries[i].intention # "" /\ entries[i].foundIt \in {"true", "false"}}

\* C9: only records with an intention and a known foundIt (true or false)
\* count in a group; intentions that differ in case share a group; no such
\* record, no insight; insights come by count, largest first.
C9_OnlyKnownFoundIt ==
    IsCall("analyzeMirrorPatterns") =>
        /\ Known = {} => result = <<>>
        /\ \A j \in 1..Len(result) :
              \E k \in GroupKeys(Known) :
                 LET G == GroupOf(k, Known)
                 IN /\ result[j].intention = capitalizeFirst(k)
                    /\ result[j].count = Cardinality(G)
                    /\ result[j].foundItRate = <<FoundIn(G), Cardinality(G)>>
                    /\ 2 * MinutesIn(G) - Cardinality(G) < 2 * Cardinality(G) * result[j].avgMinutes
                    /\ 2 * Cardinality(G) * result[j].avgMinutes <= 2 * MinutesIn(G) + Cardinality(G)
        /\ \A j \in 1..Len(result), l \in 1..Len(result) :
              j # l => result[j].intention # result[l].intention
        /\ \A j \in 1..(Len(result) - 1) : result[j].count >= result[j + 1].count

\* The windows of the comparison: the records fewer than n whole days after
\* the earliest date, and those fewer than n whole days before the latest.
BeforeWindow(n) == {i \in Idx : entries[i].date - SetMin(DateSet) < n}
AfterWindow(n) == {i \in Idx : SetMax(DateSet) - entries[i].date < n}

\* m is the quotient num / den rounded to the nearest integer, halves up.
IsRounded(m, num, den) == 2 * num - den < 2 * den * m /\ 2 * den * m <= 2 * num + den

\* The simplified scores of the records W: the base of the risk score by the
\* tier of the daily average, the gap penalties between neighbouring dates
\* and the number of records above 960 minutes.
WindowBase(W) ==
    LET days == Cardinality({entries[i].date : i \in W})
    IN CASE MinutesIn(W) >= 360 * days -> 80
         [] MinutesIn(W) < 360 * days /\ MinutesIn(W) >= 240 * days -> 60
         [] MinutesIn(W) < 240 * days /\ MinutesIn(W) >= 120 * days -> 40
         [] MinutesIn(W) < 120 * days /\ MinutesIn(W) >= 60 * days -> 20
         [] OTHER -> 10

WindowGaps(W) ==
    LET D == {entries[i].date : i \in W}
        Neighbours == {p \in D \X D :
                          p[1] < p[2] /\ ~\E d \in D : p[1] < d /\ d < p[2]}
        Penalty(p) == IF p[2] - p[1] > 7 THEN Min(30, (p[2] - p[1] - 7) * 5) ELSE 0
    IN SetSum(Penalty, Neighbours)

WindowUnrealistic(W) == Cardinality({i \in W : entries[i].minutesSpent > 960})

\* The metrics m are those of the records W: total, active days, daily
\* average and late-night frequency (in hundredths), risk and honesty score.
MetricsAreOf(m, W) ==
    LET days == Cardinality({entries[i].date : i \in W})
    IN /\ m.totalMinutes = 100 * MinutesIn(W)
       /\ m.daysActive = days
       /\ IsRounded(m.avgDailyMinutes, 100 * MinutesIn(W), days)
       /\ IsRounded(m.lateNightFrequency, 100 * LateIn(W), Cardinality(W))
       /\ IsRounded(m.riskScore, Min(100 * 7, 7 * WindowBase(W) + 20 * days), 7)
       /\ m.honestyScore = Clamp100(100 - WindowGaps(W) - 10 * WindowUnrealistic(W))

\* C10: on a non-empty list the 'before' metrics are those of the first
\* window and the 'after' metrics those of the last window, every change is
\* 'after' minus 'before', daysCompared is N; averages of 30 and 60 minutes
\* a day give a dailyUsage change of 30.
C10_WindowsAndChanges ==
    IsCall("calculateBeforeAfter") /\ Len(entries) > 0 =>
        /\ result # Null
        /\ MetricsAreOf(result.before, BeforeWindow(call.daysToCompare))
        /\ MetricsAreOf(result.after, AfterWindow(call.daysToCompare))
        /\ result.changes.dailyUsage =
              result.after.avgDailyMinutes - result.before.avgDailyMinutes
        /\ result.changes.lateNightUsage =
              result.after.lateNightFrequency - result.before.lateNightFrequency
        /\ result.changes.riskScore = result.after.riskScore - result.before.riskScore
        /\ result.changes.honestyScore =
              result.after.honestyScore - result.before.honestyScore
        /\ result.daysCompared = call.daysToCompare
        /\ (result.before.avgDailyMinutes = 30 * 100 /\ result.after.avgDailyMinutes = 60 * 100)
              => result.changes.dailyUsage = 30 * 100

\* C10 witness: 60 minutes over days 0 and 1, 120 minutes over days 9 and 10,
\* compared over 2 days: the change of the daily usage is 30 minutes.
C10_Witness ==
    /\ IsCall("calculateBeforeAfter")
    /\ call.daysToCompare = 2
    /\ Len(entries) = 4
    /\ result.before.totalMinutes = 60 * 100 /\ result.before.daysActive = 2
    /\ result.after.totalMinutes = 120 * 100 /\ result.after.daysActive = 2
    /\ result.changes.dailyUsage = 30 * 100

\* C11: the 'before' window and the 'after' window of calculateBeforeAfter
\* have no record in common, for every non-empty list and every N.
C11_WindowsDisjoint ==
    IsCall("calculateBeforeAfter") /\ Len(entries) > 0 =>
        BeforeWindow(call.daysToCompare) \cap AfterWindow(call.daysToCompare) = {}


\* The distinct days of the records, the total of a day, and the days in
\* date order: NthDay(k) is the k-th earliest day.
DayTotal(d) == LET M(i) == IF entries[i].date = d THEN entries[i].minutesSpent ELSE 0
               IN SumRange(M, 1, Len(entries))
NthDay(k) == CHOOSE d \in DateSet : Cardinality({x \in DateSet : x < d}) = k - 1
TotalsByDate == [k \in 1..Cardinality(DateSet) |-> DayTotal(NthDay(k))]

\* The trend as stated: the daily totals t split at floor(n / 2), the means
\* mean1 = s1 / mid and mean2 = s2 / (n - mid) compared with 1.1 * mean1 and
\* 0.9 * mean1.  The means and products are JavaScript numbers, compared as
\* such: off the two boundaries that is the comparison of the fractions, at
\* a mean2 of exactly 1.1 or 0.9 times mean1 the rounded product decides.
StatedTrend(t) ==
    LET n == Len(t)
        mid == n \div 2
        s1 == SetSum(LAMBDA i : t[i], 1..mid)
        s2 == SetSum(LAMBDA i : t[i], (mid + 1)..n)
    IN IF n < 4 THEN "stable"
       ELSE IF AboveTenPercent(s2, n - mid, s1, mid) THEN "increasing"
       ELSE IF BelowTenPercent(s2, n - mid, s1, mid) THEN "decreasing"
       ELSE "stable"

\* C12: fewer than 4 distinct days give trend 'stable'; with n >= 4 days the
\* daily totals are split at index floor(n / 2) and the trend is 'increasing'
\* iff mean(second half) > 1.1 * mean(first half), 'decreasing' iff
\* mean(second half) < 0.9 * mean(first half), 'stable' otherwise; the totals
\* [10,10,50,50], [50,50,10,10] and [30,30,30,30] give 'increasing',
\* 'decreasing' and 'stable'.  (The days are logged in date order here.)
C12_TrendByHalves ==
    IsCall("calculateWeeklyStats") =>
        /\ result.trend = StatedTrend(TotalsByDate)
        /\ Cardinality(DateSet) < 4 => result.trend = "stable"
        /\ TotalsByDate = <<10, 10, 50, 50>> => result.trend = "increasing"
        /\ TotalsByDate = <<50, 50, 10, 10>> => result.trend = "decreasing"
        /\ TotalsByDate = <<30, 30, 30, 30>> => result.trend = "stable"

\* Four days whose second half is exactly 1.1 times the first: 'stable'.
C12_Witness ==
    /\ IsCall("calculateWeeklyStats")
    /\ TotalsByDate = <<10, 10, 11, 11>>
    /\ result.trend = "stable"

\* C13: the trend of calculateWeeklyStats is that of the daily totals in
\* date-ascending order (first half of the week against second half),
\* whatever the order in which the records are supplied.
C13_TrendChronological ==
    IsCall("calculateWeeklyStats") => result.trend = StatedTrend(TotalsByDate)

\* The sum of minutesSpent over all records.
TotalOfRecords == LET M(i) == entries[i].minutesSpent IN SumRange(M, 1, Len(entries))

\* What C14 states of the result of either function but the average.
DaysAndTotal ==
    /\ result.daysActive = Cardinality(DateSet)
    /\ result.totalMinutes = 100 * TotalOfRecords
    /\ IsCall("calculateMonthlyStats") =>
        LET weekly == calculateWeeklyStats(entries)
        IN /\ result.totalMinutes = weekly.totalMinutes
           /\ result.averageDailyMinutes = weekly.averageDailyMinutes
           /\ result.daysActive = weekly.daysActive

IsStatsCall == IsCall("calculateWeeklyStats") \/ IsCall("calculateMonthlyStats")

\* C14 as stated: on a non-empty list calculateWeeklyStats and
\* calculateMonthlyStats return the same totalMinutes, averageDailyMinutes
\* and daysActive; daysActive is the number of distinct days, totalMinutes
\* the sum of minutesSpent, and averageDailyMinutes is exactly
\* totalMinutes / max(1, daysActive).
C14_AverageExact ==
    IsStatsCall /\ Len(entries) > 0 =>
        /\ DaysAndTotal
        /\ result.averageDailyMinutes * Max(1, result.daysActive) = 100 * TotalOfRecords

\* C14 amended: the same, with averageDailyMinutes being
\* totalMinutes / max(1, daysActive) rounded to two decimals.
C14_AverageRounded ==
    IsStatsCall /\ Len(entries) > 0 =>
        /\ DaysAndTotal
        /\ IsRounded(result.averageDailyMinutes, 100 * TotalOfRecords,
                     Max(1, Cardinality(DateSet)))

\* 80 minutes on three days, four records: the monthly average is 26.67.
C14_Witness ==
    /\ IsCall("calculateMonthlyStats")
    /\ Len(entries) = 4
    /\ result.daysActive = 3
    /\ result.totalMinutes = 8000
    /\ result.averageDailyMinutes = 2667

\* The apps of the records, the total of an app and the place of its first record.
AppsOfRecords == {entries[i].appName : i \in Idx}
AppTotal(a) == LET M(i) == IF entries[i].appName = a THEN entries[i].minutesSpent ELSE 0
               IN SumRange(M, 1, Len(entries))
FirstRecordOf(a) == SetMin({i \in Idx : entries[i].appName = a})

\* C15: the apps list of calculateDailyStats and of calculateWeeklyStats has
\* exactly one entry per distinct appName, with the sum of the app's minutes;
\* the entries are in non-increasing order of minutes and apps of equal
\* minutes are in the order of their first occurrence in the input; appCount
\* is the number of entries and the entries' minutes sum to totalMinutes.
C15_AppsList ==
    IsCall("calculateDailyStats") \/ IsCall("calculateWeeklyStats") =>
        LET apps == result.apps
            n == Len(apps)
        IN /\ n = Cardinality(AppsOfRecords)
           /\ {apps[i].name : i \in 1..n} = AppsOfRecords
           /\ \A i \in 1..n : apps[i].minutes = AppTotal(apps[i].name)
           /\ \A i, j \in 1..n : i < j =>
                \/ apps[i].minutes > apps[j].minutes
                \/ /\ apps[i].minutes = apps[j].minutes
                   /\ FirstRecordOf(apps[i].name) < FirstRecordOf(apps[j].name)
           /\ IsCall("calculateDailyStats") => result.appCount = n
           /\ 100 * SetSum(LAMBDA i : apps[i].minutes, 1..n) = result.totalMinutes

\* TikTok, first seen, and Instagram both total 60 minutes and YouTube 30:
\* TikTok comes first.
C15_Witness ==
    /\ IsCall("calculateDailyStats")
    /\ Len(entries) = 4
    /\ result.appCount = 3
    /\ result.apps = << [name |-> "TikTok", minutes |-> 60],
                        [name |-> "Instagram", minutes |-> 60],
                        [name |-> "YouTube", minutes |-> 30] >>

\* The Monday on or before day d (day 0 is a Monday).
MondayOnOrBefore(d) == d - (d % 7)
IsMonday(k) == k % 7 = 0

\* C16: for period 'weekly' every record is in the bucket of the Monday on or
\* before its date: the keys are the Mondays k with k <= d and d - k <= 6 of
\* the record dates d, Sundays included, and a bucket holds the minutes of
\* the records of its week.
C16_WeeklyBucketsAreMondays ==
    IsCall("getTimeSeriesData") /\ call.period = "weekly" =>
        /\ \A d \in DateSet : \E j \in 1..Len(result) :
            LET k == result[j].date
            IN IsMonday(k) /\ k <= d /\ d - k <= 6
        /\ \A j \in 1..Len(result) :
            /\ IsMonday(result[j].date)
            /\ result[j].minutes =
                100 * SetSum(LAMBDA i : entries[i].minutesSpent,
                             {i \in Idx : MondayOnOrBefore(entries[i].date) = result[j].date})

\* The bucket of record i under the period and time zone of the call.
KeyOfRecord(i) == BucketKey(entries[i].date, call.period, call.utcOffset)
KeysOfRecords == {KeyOfRecord(i) : i \in Idx}

\* C17: getTimeSeriesData returns the empty list for empty input; otherwise
\* exactly one entry per distinct bucket key, in strictly ascending key order
\* whatever the input order, each with the sum of the minutes of the records
\* of its bucket, so that the entries sum to the total of all records.
C17_OneEntryPerBucket ==
    IsCall("getTimeSeriesData") =>
        LET n == Len(result)
        IN /\ entries = <<>> => result = <<>>
           /\ n = Cardinality(KeysOfRecords)
           /\ {result[j].date : j \in 1..n} = KeysOfRecords
           /\ \A j \in 1..(n - 1) : result[j].date < result[j + 1].date
           /\ \A j \in 1..n :
                result[j].minutes =
                    100 * SetSum(LAMBDA i : entries[i].minutesSpent,
                                 {i \in Idx : KeyOfRecord(i) = result[j].date})
           /\ SetSum(LAMBDA j : result[j].minutes, 1..n) = 100 * TotalOfRecords

\* Records of 7 January, 1 February and 1 January, in that order, by day:
\* three entries in date order.
C17_Witness ==
    /\ IsCall("getTimeSeriesData")
    /\ call.period = "daily"
    /\ [i \in Idx |-> entries[i].date] = <<6, 31, 0>>
    /\ [j \in 1..Len(result) |-> result[j].date] = <<0, 6, 31>>

\* The neutral default the specification states for each component.
StatedDefault(fn) ==
    CASE fn = "calculateRiskScore" -> [score |-> 0, category |-> "Low", level |-> "low"]
      [] fn = "calculateDailyStats" ->
            [totalMinutes |-> 0, averageMinutes |-> 0, appCount |-> 0, apps |-> <<>>]
      [] fn = "calculateWeeklyStats" ->
            [totalMinutes |-> 0, averageDailyMinutes |-> 0, daysActive |-> 0,
             trend |-> "stable", apps |-> <<>>]
      [] fn = "calculateMonthlyStats" ->
            [totalMinutes |-> 0, averageDailyMinutes |-> 0, daysActive |-> 0]
      [] fn = "getTimeSeriesData" -> <<>>
      [] fn = "analyzeMirrorPatterns" -> <<>>
      [] fn = "calculateBeforeAfter" -> Null
      [] fn = "calculateDigitalHonestyScore" -> 100

OnAbsent == "absent" \in DOMAIN call

\* C18: on an empty or absent record collection every component returns its
\* neutral default (risk {score 0, 'Low', 'low'}, all-zero statistics with
\* trend 'stable' and apps [], [] for the time series and the mirror
\* patterns, null for the comparison, 100 for the honesty score), and the
\* honesty score of exactly one record is 100 whatever its minutes.
C18_NeutralDefaults ==
    /\ call # NoCall /\ (OnAbsent \/ entries = <<>>) => result = StatedDefault(call.fn)
    /\ IsCall("calculateDigitalHonestyScore") /\ Len(entries) = 1 => result = 100

\* The honesty score of a single record of 1440 minutes is 100.
C18_Witness ==
    /\ IsCall("calculateDigitalHonestyScore")
    /\ ~OnAbsent
    /\ Len(entries) = 1
    /\ entries[1].minutesSpent = 1440
    /\ result = 100

\* The records with every malformed minutesSpent replaced by 0.
CoercedEntries == [i \in Idx |-> [entries[i] EXCEPT !.minutesSpent = OrZero(parseFloat(@))]]

\* C19: a record whose minutesSpent is malformed counts as 0 minutes: the
\* totals and averages of the statistics and the honesty score are the
\* numbers obtained with 0 in its place, and none is a not-a-number value.
C19_MalformedCountsAsZero ==
    /\ IsCall("calculateDailyStats") =>
        /\ result.totalMinutes # NaN
        /\ result.averageMinutes # NaN
        /\ result.totalMinutes = calculateDailyStats(CoercedEntries).totalMinutes
        /\ result.averageMinutes = calculateDailyStats(CoercedEntries).averageMinutes
    /\ IsCall("calculateWeeklyStats") =>
        /\ result.totalMinutes # NaN
        /\ result.averageDailyMinutes # NaN
        /\ result = calculateWeeklyStats(CoercedEntries)
    /\ IsCall("calculateMonthlyStats") =>
        /\ result.totalMinutes # NaN
        /\ result = calculateMonthlyStats(CoercedEntries)
    /\ IsCall("calculateRiskScore") =>
        /\ result.score # NaN
        /\ result = calculateRiskScore(CoercedEntries)
    /\ IsCall("calculateDigitalHonestyScore") =>
        /\ result # NaN
        /\ result = calculateDigitalHonestyScore(CoercedEntries)

SameKey(row) ==
    {r \in usageLogs :
        r.userId = row.userId /\ r.appName = row.appName /\ r.date = row.date}

NoDuplicates == \A r \in usageLogs : SameKey(r) = {r}

\* The clock readings a row can be created at: that of the newest row, when
\* the clock has not ticked since, or a later one.
ClockReadings == {Max(1, Latest), Latest + 1}

\* The row a create request of user u with body b is for.
RequestedRow(u, b) == [userId |-> u, appName |-> Trim(b.appName), date |-> LogDate(b.date)]

\* A create request that meets a stored row of its user, app and date, at
\* its existence check or at its insert, is answered 400 and writes nothing.
\* (A row that fails the validators is answered by the error middleware.)
CreateOnStoredKeyRefused ==
    /\ \A u \in StoreUsers, b \in StoreCreateBodies :
        CreateCheck(u, b) /\ SameKey(RequestedRow(u, b)) # {} =>
            /\ result'.status = 400
            /\ call' = Request("createUsageLog", u, 0, b)
            /\ usageLogs' = usageLogs
    /\ \A p \in Awaiting, now \in ClockReadings :
        CreateInsert(p, now) /\ SameKey(p.row) # {} =>
            /\ Validates(p.row) => result'.status = 400
            /\ call' = p.req
            /\ usageLogs' = usageLogs

\* C21: whatever the interleaving of the reads and writes of create, update
\* and delete requests, the table never holds two rows of the same user, app
\* and date, and a create request for a user, app and date that is stored is
\* answered 400 and leaves the table unchanged.
C21_NoDuplicateLogs == []NoDuplicates /\ [][CreateOnStoredKeyRefused]_vars

\* Two create requests passed their existence checks together, one wrote
\* its row, and the other was refused by the unique index.
C21_Witness ==
    /\ IsCall("createUsageLog")
    /\ result.status = 400
    /\ result.message = "A usage entry for this app and date already exists"
    /\ \E r \in usageLogs :
        /\ r.userId = call.userId
        /\ r.appName = Trim(call.body.appName)
        /\ r.date = LogDate(call.body.date)

\* C22: a create request with a non-empty app name, minutes anywhere from 0
\* to 1440 (0 included) and no stored log of its user, app and date is not
\* refused at its checks, and its insert answers 201 and stores the log.
C22_ZeroTo1440Accepted ==
    [][/\ \A u \in FormUsers, b \in FormCreateBodies :
            /\ CreateCheck(u, b)
            /\ b.appName # ""
            /\ b.minutesSpent \in 0..1440
            /\ SameKey(RequestedRow(u, b)) = {}
            => pending' # pending
       /\ \A p \in Awaiting, now \in ClockReadings :
            /\ CreateInsert(p, now)
            /\ p.row.minutesSpent \in 0..1440
            /\ SameKey(p.row) = {}
            => /\ result'.status = 201
               /\ \E r \in usageLogs' :
                    /\ r.userId = p.row.userId
                    /\ r.appName = p.row.appName
                    /\ r.date = p.row.date
                    /\ r.minutesSpent = p.row.minutesSpent]_vars

\* The days from the earliest to the latest record, both included.
SpanDays == SetMax(DateSet) - SetMin(DateSet) + 1

\* C23: calculateBeforeAfter returns a comparison only of records that span
\* at least 2 * daysToCompare days; of fewer days it returns null.
C23_NullOnShortSpan ==
    IsCall("calculateBeforeAfter") /\ result # Null =>
        /\ Len(entries) > 0
        /\ SpanDays >= 2 * call.daysToCompare

\* C24: each kind of penalty is capped in total: whatever the records, the
\* honesty score is at least 100 less at most 30 points for all the gaps, at
\* most 40 for all the records above 960 minutes and at most 25 for all the
\* spikes.
C24_PenaltiesCappedInTotal ==
    IsCall("calculateDigitalHonestyScore") /\ Len(entries) >= 2 =>
        result >= 100 - Min(30, ClaimedGapPenalty)
                      - Min(40, 10 * ClaimedUnrealistic)
                      - Min(25, 5 * GuardedSpikes)

\* C25: the weekly records of the dashboard are of at most 7 days, so the
\* consistency factor (daysActive / 7) * 20 is at most 20 points.
C25_ConsistencyAtMost20 ==
    IsCall("getDashboard") =>
        /\ result.weekly.daysActive <= 7
        /\ ConsistencyFactor(result.weekly.daysActive) <= 20 * Q

\* The points the peak-day factor may contribute for a largest daily total
\* of v minutes, lowest and highest; a total on a boundary may score as
\* either of the ranges it separates.
PeakRange(v) ==
    [low |-> IF v <= 120 THEN 0 ELSE IF v <= 240 THEN 5 ELSE IF v <= 360 THEN 10 ELSE 15,
     high |-> IF v < 120 THEN 5 ELSE IF v < 240 THEN 10 ELSE IF v < 360 THEN 15 ELSE 20]

\* C26: the peak-day factor is within the range of the largest daily total:
\* the score is the rounded and clamped sum of the other three factors and
\* of 0 to 5 points under 120 minutes, 5 to 10 from 120 to 240, 10 to 15 from
\* 240 to 360 and 15 to 20 above.
C26_PeakFactorRanges ==
    IsCall("calculateRiskScore") /\ Len(entries) > 0 =>
        LET stats == calculateWeeklyStats(entries)
            others == StatedAvgFactor(stats.averageDailyMinutes)
                        + (Cardinality(DateSet) * 20 * Q) \div 7
                        + StatedTrendFactor(stats.trend)
            range == PeakRange(LargestDailyTotal)
        IN /\ result.score >= Clamp100(MathRound(others + range.low * Q, Q))
           /\ result.score <= Clamp100(MathRound(others + range.high * Q, Q))

\* The foundIt a request value stands for: Yes, No, and unknown for 'Not
\* sure' (null) and for a value left out.
StatedFoundIt(v) == IF v = "undefined" THEN "null" ELSE v

\* The stored row of the log the last request was answered with.
AnsweredRow == CHOOSE r \in usageLogs : r.id = result.logs[1].id

\* C27: a log is stored with the foundIt of its create request, null and a
\* foundIt left out as unknown, true and false as themselves; an update
\* stores the same value for the same request value; and a 'Not sure' entry
\* is not among the entries the mirror analysis and the intent-drift
\* frequency count.
C27_FoundItKeepsThreeStates ==
    /\ IsCall("createUsageLog") /\ result.status = 201 =>
        /\ AnsweredRow.foundIt = StatedFoundIt(call.body.foundIt)
        /\ call.body.foundIt = "null" => ~HasIntentionAndFoundIt(AnsweredRow)
    /\ IsCall("updateUsageLog") /\ result.status = 200 /\ call.body.foundIt # "undefined" =>
        AnsweredRow.foundIt = StatedFoundIt(call.body.foundIt)

\* The rows of the users other than u.
RowsOfOthers(rows, u) == {r \in rows : r.userId # u}

\* The last request was made by id, for a log another user owns.
OnLogOfAnother ==
    /\ call.fn \in {"getUsageLogById", "updateUsageLog", "deleteUsageLog"}
    /\ \E r \in usageLogs : r.id = call.id /\ r.userId # call.userId

OwnLogsOnly ==
    /\ OnLogOfAnother => result.status = 404 /\ result.logs = <<>>
    /\ call.fn \in {"getUsageLogs", "getUsageLogById", "createUsageLog", "updateUsageLog"} =>
        \A i \in 1..Len(result.logs) : result.logs[i].userId = call.userId

\* C28: a request by id for a log of another user is answered 404, every
\* log a request returns is the requester's, and no request changes a log of
\* a user other than the requester.
C28_LogsIsolatedPerUser ==
    /\ []OwnLogsOnly
    /\ [][call' # NoCall =>
            RowsOfOthers(usageLogs', call'.userId) = RowsOfOthers(usageLogs, call'.userId)]_vars

\* User 1 has asked to delete a log of user 2, was answered 404, and the log
\* is still there.
C28_Witness ==
    /\ IsCall("deleteUsageLog")
    /\ call.userId = 1
    /\ result.status = 404
    /\ \E r \in usageLogs : r.id = call.id /\ r.userId = 2

\* The items of a list, and the tests of the seven gated items as stated.
ItemsOf(list) == {list[i] : i \in 1..Len(list)}

SomeItemTriggers(analysis, stats) ==
    \/ stats.lateNightFrequency > 30
    \/ stats.intentDriftFrequency > 40
    \/ stats.dailyAvg > 18000
    \/ analysis.regretTypes.habitualScrolling > 15
    \/ analysis.regretTypes.attentionDrain > 15
    \/ analysis.regretTypes.burnout > 15
    \/ stats.repeatedOpens > 5

\* The tests on the page, stated on the logs and the dashboard: more than
\* 0.3 of the entries were made late at night, more than 0.4 of the entries
\* with an intention and an answer did not find it, the dashboard's daily
\* average is above 180 minutes, or a regret type of the result is above 15.
SimulatorItemTriggers ==
    LET late == {i \in Idx : entries[i].createdAt # <<>>
                    /\ (entries[i].createdAt[1] >= 22 \/ entries[i].createdAt[1] < 6)}
        asked == {i \in Idx : entries[i].intention # "" /\ entries[i].foundIt # "null"}
        drifted == {i \in asked : entries[i].foundIt = "false"}
    IN  \/ 10 * Cardinality(late) > 3 * Len(entries)
        \/ 10 * Cardinality(drifted) > 4 * Cardinality(asked)
        \/ call.dashboardData.weekly.averageDailyMinutes > 18000
        \/ result.regretTypes.habitualScrolling > 15
        \/ result.regretTypes.attentionDrain > 15
        \/ result.regretTypes.burnout > 15

\* C29: the regret list is never empty and holds the generic item exactly
\* when no gated item triggers; when the list is made from the analysis of
\* the same statistics, as on the simulator page, a regret level 'high'
\* comes with at least one item that is not the generic one.
C29_RegretListNeverEmpty ==
    /\ IsCall("generateRegretList") =>
        /\ Len(result.regretList) > 0
        /\ GenericItem \in ItemsOf(result.regretList)
              <=> ~SomeItemTriggers(call.analysis, call.stats)
        /\ (/\ call.stats.dailyAvg = call.data.dailyAvg
            /\ call.stats.lateNightFrequency = call.data.lateNightFrequency
            /\ call.stats.intentDriftFrequency = call.data.intentDriftFrequency
            /\ call.analysis.regretLevel = "high")
              => ItemsOf(result.regretList) # {GenericItem}
    /\ IsCall("FutureRegretSimulator") /\ result # Null =>
        /\ Len(result.regretList) > 0
        /\ GenericItem \in ItemsOf(result.regretList) <=> ~SimulatorItemTriggers
        /\ result.regretLevel = "high" => ItemsOf(result.regretList) # {GenericItem}

\* The page has found a regret level 'high' for the logs and the dashboard
\* it has fetched, and the list names specific items and not the generic
\* one.
C29_Witness ==
    /\ IsCall("FutureRegretSimulator")
    /\ Len(entries) > 0
    /\ result # Null
    /\ result.regretLevel = "high"
    /\ Len(result.regretList) >= 2
    /\ GenericItem \notin ItemsOf(result.regretList)

\* The list es in the order p, a permutation of its indexes.
Reordered(es, p) == [i \in 1..Len(es) |-> es[p[i]]]

\* C30: the honesty score depends only on the set of records, not on the
\* order in which they are supplied: the score returned for the list is the
\* score of every permutation of it, several records of one date included.
C30_ScoreOfAnyOrder ==
    IsCall("calculateDigitalHonestyScore") =>
        \A p \in Permutations(1..Len(entries)) :
            calculateDigitalHonestyScore(Reordered(entries, p)) = result
====
